---- MODULE Spec2Model ----
(***************************************************************************)
(* Model of the ZVision detection system: the tracking pipeline            *)
(* (managers/detection_manager.py), the frame source                       *)
(* (managers/camera_manager.py), the event store                           *)
(* (managers/database_manager.py), the snapshot store                      *)
(* (managers/storage_manager.py) and the ROI endpoint                      *)
(* (managers/api_manager.py).                                              *)
(*                                                                         *)
(* Each subsystem has its own specification over the variables it uses;    *)
(* the variables of the other subsystems stay at their initial value.      *)
(*   SpecTrack   one tracking worker per camera processing frames          *)
(*   SpecPresence the aggregate person_detected state over frames          *)
(*   SpecWorkers life cycle of the detection worker threads                *)
(*   SpecSource  the frame source: producer thread, readers, start/stop    *)
(*   SpecDb      concurrent log_detection_event calls                      *)
(*   SpecRoi     the ROI write endpoint                                    *)
(*   SpecStorage the snapshot directories and the FIFO sweep               *)
(*   SpecSourceFair  SpecSource under a fair scheduler                     *)
(*   SpecReconnect   one run of the producer through all failure counts    *)
(*   SpecDirection   the direction check of one Track                      *)
(***************************************************************************)
EXTENDS Integers, Sequences, FiniteSets, TLC

\* ------------------------------------------------------------------------
\* Bounds of the model
\* ------------------------------------------------------------------------

\* SpecTrack stops processing frames at this clock value (seconds)
MaxTime == 4

\* SpecPresence stops processing frames at this clock value (seconds)
MaxPresenceTime == 8

\* seconds of processed frames while the event store or the snapshot
\* directory fails
MaxFaultTime == 3

\* SpecDb: rows written to detection_events
MaxRows == 3

\* SpecDb: the wall clock stops here (ticks)
MaxDbClock == 4

\* SpecStorage: files ever written below the snapshot directory
MaxStorageFiles == 4

\* SpecStorage: the clock that stamps the files stops here
MaxStorageTime == 2

\* SnapshotStorageManager.max_files (1000 by default, set by the configuration)
max_files == 1

\* SpecWorkers: detection threads ever created
MaxDetectionThreads == 2

\* SpecWorkers stops processing frames at this clock value (seconds)
MaxWorkerTime == 2

\* SpecSource: capture threads ever created for the Frame Source
MaxCaptureThreads == 2

\* SpecSource: opens of the device that fail after one start()
MaxOpenFailures == 1

\* SpecSource: reads without a frame, in a row, after the warm-up period
MaxReadFailures == 1

\* number of tracker ids the detector hands out
MaxTrackId == 1

\* SpecGaps stops at this time
MaxGapTime == 8

\* SpecDirection: length of the position history handed to the classification
MaxPositions == 6

\* boxes the detector returns for one frame
MaxBoxes == 1

\* ------------------------------------------------------------------------
\* Program constants
\* ------------------------------------------------------------------------

\* deque(maxlen=10) of a Track's recent centroids
PositionCap == 10

\* a Track unseen for more than this many seconds is purged
TrackExpiry == 2

\* consecutive empty frames after which person_detected is cleared
NoPersonFrames == 5

\* the frontend canvas the ROI coordinates are drawn on
canvas_width == 320

canvas_height == 240

\* YOLO class id of a person (detection.person_class_id)
person_class_id == 0

Cameras == {"main", "cam2"}

TrackIds == 1..MaxTrackId

\* frame geometry of each camera (CameraManager width/height)
FrameWidth(c) == IF c = "main" THEN 640 ELSE 320

FrameHeight(c) == IF c = "main" THEN 480 ELSE 240

\* Python None for a path, a track id or a direction
None == "None"

NoPath == <<>>

Abs(n) == IF n < 0 THEN -n ELSE n

Min(a, b) == IF a < b THEN a ELSE b

Max(a, b) == IF a > b THEN a ELSE b

RECURSIVE Gcd(_, _)
Gcd(a, b) == IF b = 0 THEN a ELSE Gcd(b, a % b)

RECURSIVE SumX(_)
SumX(ps) == IF ps = <<>> THEN 0 ELSE Head(ps)[1] + SumX(Tail(ps))

RECURSIVE SumY(_)
SumY(ps) == IF ps = <<>> THEN 0 ELSE Head(ps)[2] + SumY(Tail(ps))

\* ------------------------------------------------------------------------
\* State
\* ------------------------------------------------------------------------
\* DetectionManager.roi_settings: camera_id -> dict with keys among coords, entry_direction
VARIABLE roi_settings
\* DetectionManager.track_states: camera_id -> (track_id -> track_info)
VARIABLE track_states
\* DetectionManager.states: camera_id -> aggregate detection state
VARIABLE states
\* camera_id -> the last processed frame: its time, the region handed to the
\* detector, any_person_found and track_ids_seen
VARIABLE last_frame
\* camera_id -> number of consecutive processed frames without a person (history)
VARIABLE empty_run
\* rows of the detection_events table, in id order
VARIABLE detection_events
\* the rows of the camera_config table
VARIABLE camera_config
\* roi_settings of a DetectionManager constructed over the same store; its
\* coordinates are Python values, [int |-> n] or [str |-> s]
VARIABLE reloaded_roi_settings
\* the handler of one POST /api/cameras/<camera_id>/roi request: the call it
\* makes next, the call it made last and what that call returned
VARIABLE roi_call
\* files written below snapshots/
VARIABLE snapshot_files
\* notifications pushed through api_manager.emit_event
VARIABLE emitted
\* dashboard_manager.record_footfall calls, counted by camera and type
VARIABLE footfalls
\* last_status of DashboardManager._monitor_detections
VARIABLE last_status
\* wall clock, seconds
VARIABLE now
\* last request handled by the ROI endpoints
VARIABLE api_request
\* its answer
VARIABLE api_response

trackVars == <<track_states, states, last_frame, empty_run, detection_events,
               snapshot_files, emitted, footfalls, last_status, now>>

\* DatabaseManager.db_lock: the thread that holds it, or "free"
VARIABLE db_lock
\* thread -> its position in log_detection_event
VARIABLE db_pc
\* the rows of the cameras table
VARIABLE cameras_table
\* per thread, the call on the camera tables it makes or made last, and what
\* the call returned
VARIABLE db_call
\* thread -> the local variable timestamp of log_detection_event
VARIABLE db_timestamp
\* the wall clock read by datetime.now(pytz.UTC), in clock ticks
VARIABLE db_clock

\* CameraManager.is_running of the Frame Source under study
VARIABLE cam_is_running
\* CameraManager.thread: the capture thread it refers to, 0 for None
VARIABLE cam_thread
\* CameraManager.is_initialized
VARIABLE cam_is_initialized
\* CameraManager.reconnection_attempts
VARIABLE reconnection_attempts
\* CameraManager.initialization_lock: 0 free, Caller held by start()/stop(),
\* otherwise the capture thread that holds it
VARIABLE initialization_lock
\* CameraManager.frame_queue, frames named by the thread that captured them
VARIABLE frame_queue
\* CameraManager.latest_frame, 0 for None
VARIABLE latest_frame
\* capture thread -> position in _capture_loop and its locals cap, retry_count,
\* in_warmup_period, consecutive_failures, video_finished
VARIABLE capture
\* where the caller of start()/stop() is: "idle" or "joining"
VARIABLE source_call
\* what the last get_frame()/get_latest_frame() returned, 0 for None
VARIABLE last_read
\* opens of the device that have failed since the last start()
VARIABLE open_failures
\* what device_id names: "usb" (a device number), "ip" (is_ip_camera) or
\* "video" (is_video_file)
VARIABLE source_kind

\* DetectionManager.is_running
VARIABLE is_running
\* DetectionManager.detection_threads: camera_id -> thread, 0 for a missing key
VARIABLE detection_threads
\* camera_id -> CameraManager.is_running of that camera
VARIABLE camera_is_running
\* camera_id -> the attribute _stop_detection of that camera (False when unset)
VARIABLE stop_detection
\* detection thread -> the camera it serves and its position in
\* _run_detection_for_camera
VARIABLE detection_worker
\* the call of the DetectionManager in progress
VARIABLE manager_call
\* the last call of the DetectionManager that returned (history)
VARIABLE last_return
\* ZVision.shutdown: the step it is at and the steps it has made, each with
\* whether it returned or raised
VARIABLE shutdown

\* the *.jpg files lying directly in the snapshot directory
VARIABLE storage_root
\* camera subdirectory of the snapshot directory -> its *.jpg files
VARIABLE storage_dirs
\* files written below the snapshot directory so far (names the next file)
VARIABLE storage_written
\* the last enforce_fifo sweep: its parity and whether an os.remove could fail
VARIABLE last_sweep

\* the last run of the direction check of _update_track_state: the camera,
\* the Track's positions, the movement vector and the direction computed
VARIABLE classification
\* the CameraRegistry: the call in progress and the camera installed as "main"
VARIABLE registry

roiVars == <<roi_settings, camera_config, api_request, api_response,
             reloaded_roi_settings, roi_call>>

storageVars == <<storage_root, storage_dirs, storage_written, last_sweep>>

workerVars == <<is_running, detection_threads, camera_is_running, stop_detection,
                detection_worker, manager_call, last_return, shutdown>>

sourceVars == <<cam_is_running, cam_thread, cam_is_initialized, reconnection_attempts,
                initialization_lock, frame_queue, latest_frame, capture, source_call,
                last_read, open_failures, source_kind>>

dbVars == <<db_lock, db_pc, db_timestamp, db_clock, cameras_table, db_call>>

vars == <<trackVars, roiVars, dbVars, sourceVars, workerVars, storageVars, classification, registry>>

\* ------------------------------------------------------------------------
\* Entry direction descriptor
\*
\* An entry-direction string is modelled by its comma-separated fields:
\* "LTR" is <<"LTR">>, "1,0" is <<"1", "0">>, "1,2,3" is <<"1", "2", "3">>.
\* ',' in s is Len(fields) > 1 and s.split(',') is the sequence itself.
\* float(field) succeeds on the numeric literals of FloatLits; a parsed float
\* is kept as an integer number of 1e-7 units.
\* ------------------------------------------------------------------------
FloatLits == {"0", "1", "-1", "0.0000001", "0.000001", "-0.000001"}

FloatE7(tok) ==
    CASE tok = "0" -> 0
      [] tok = "1" -> 10000000
      [] tok = "-1" -> -10000000
      [] tok = "0.0000001" -> 1
      [] tok = "0.000001" -> 10
      [] tok = "-0.000001" -> -10

\* float(tok) raises ValueError
FloatFails(tok) == tok \notin FloatLits

\* 1e-6 in 1e-7 units
Eps == 10

\* (x**2 + y**2)**0.5 < 1e-6, x and y in 1e-7 units
MagnitudeBelowEps(x, y) ==
    IF Abs(x) >= Eps \/ Abs(y) >= Eps THEN FALSE ELSE x * x + y * y < Eps * Eps

\* (x**2 + y**2)**0.5 > 1e-6, x and y in 1e-7 units
MagnitudeAboveEps(x, y) ==
    IF Abs(x) > Eps \/ Abs(y) > Eps THEN TRUE ELSE x * x + y * y > Eps * Eps

valid_directions == {"LTR", "RTL", "BTT", "TTB", "BLTR", "BRTL", "TLBR", "TRBL", "IN", "OUT"}

\* the vector of a legacy code in _determine_direction; anything else is (1, 0)
LegacyVector(code) ==
    CASE code = "LTR" -> <<1, 0>>
      [] code = "RTL" -> <<-1, 0>>
      [] code = "BTT" -> <<0, -1>>
      [] code = "TTB" -> <<0, 1>>
      [] code = "BLTR" -> <<1, -1>>
      [] code = "BRTL" -> <<-1, -1>>
      [] code = "TLBR" -> <<1, 1>>
      [] code = "TRBL" -> <<-1, 1>>
      [] OTHER -> <<1, 0>>

\* ------------------------------------------------------------------------
\* Movement vector and direction classification
\* ------------------------------------------------------------------------

\* no movement vector (Python None)
NoVector == <<>>

\* calculate_movement_vector with a movement of exactly 2.0 px taken as
\* insignificant
calculate_movement_vector_AtMostTwo(positions) ==
    IF Len(positions) < 3 THEN NoVector
    ELSE LET n == Len(positions)
             first_third == Max(1, n \div 3)
             start_points == SubSeq(positions, 1, first_third)
             end_points == SubSeq(positions, n - first_third + 1, n)
             movement_x == SumX(end_points) - SumX(start_points)
             movement_y == SumY(end_points) - SumY(start_points)
         IN  \* magnitude <= 2.0
             IF movement_x * movement_x + movement_y * movement_y
                    <= 4 * first_third * first_third
             THEN NoVector
             ELSE <<movement_x, movement_y>>

\* _calculate_movement_vector: NoVector, or the movement vector.  The code returns
\* the unit vector (E - S) / |E - S|; the model returns k * (E - S), the same
\* direction in integers (k = first_third), and _determine_direction compares
\* the dot product of the unit vectors exactly.
calculate_movement_vector(positions) ==
    IF Len(positions) < 3 THEN NoVector
    ELSE LET n == Len(positions)
             first_third == Max(1, n \div 3)
             start_points == SubSeq(positions, 1, first_third)
             end_points == SubSeq(positions, n - first_third + 1, n)
             movement_x == SumX(end_points) - SumX(start_points)
             movement_y == SumY(end_points) - SumY(start_points)
         IN  \* magnitude < 2.0
             IF movement_x * movement_x + movement_y * movement_y
                    < 4 * first_third * first_third
             THEN NoVector
             ELSE <<movement_x, movement_y>>

\* dot product of the unit vectors of m and d compared with the threshold 0.2:
\* m.d / (|m| |d|) > 1/5  iff  m.d > 0 and 25 (m.d)^2 > |m|^2 |d|^2
DotAbove(m, d) ==
    LET s == m[1] * d[1] + m[2] * d[2]
    IN  s > 0 /\ 25 * s * s > (m[1] * m[1] + m[2] * m[2]) * (d[1] * d[1] + d[2] * d[2])

\* DotBelow without the threshold: any movement against the direction
DotBelow_NoThreshold(m, d) == m[1] * d[1] + m[2] * d[2] < 0

\* the dot product of the unit vectors is below -0.2
DotBelow(m, d) == DotAbove(m, <<-d[1], -d[2]>>)

\* a vector of the same direction with small components
Reduce(x, y) ==
    LET g == Gcd(Abs(x), Abs(y))
    IN  IF g = 0 THEN <<0, 0>> ELSE <<x \div g, y \div g>>

\* the classification of a movement against a camera direction vector
Classify(m, d) ==
    IF DotAbove(m, d) THEN "entry"
    ELSE IF DotBelow(m, d) THEN "exit"
    ELSE None

\* _determine_direction(camera_id, movement_vector) under the settings rs
determine_direction(rs, camera_id, movement_vector) ==
    IF movement_vector = NoVector \/ camera_id \notin DOMAIN rs THEN None
    ELSE LET direction == IF "entry_direction" \in DOMAIN rs[camera_id]
                          THEN rs[camera_id].entry_direction
                          ELSE <<"1", "0">>
         IN  IF Len(direction) > 1
             THEN \* dir_x, dir_y = map(float, direction.split(','))
                  IF Len(direction) # 2 \/ FloatFails(direction[1]) \/ FloatFails(direction[2])
                  THEN None
                  ELSE LET dir_x == FloatE7(direction[1])
                           dir_y == FloatE7(direction[2])
                       IN  IF MagnitudeAboveEps(dir_x, dir_y)
                           THEN Classify(movement_vector, Reduce(dir_x, dir_y))
                           ELSE \* not normalized: |dot| <= 1e-6 < 0.2
                                None
             ELSE Classify(movement_vector, LegacyVector(direction[1]))

\* ------------------------------------------------------------------------
\* Tracking pipeline: one frame of one camera
\*
\* The effects of one _process_frame call are threaded through a record w:
\*   w.tracks   track_states[camera_id]
\*   w.events   detection_events
\*   w.files    snapshot_files
\*   w.emitted  emitted
\*   w.foot     footfalls
\*   w.io       what the event store and the snapshot directory do during
\*              the frame
\*   w.raised   an exception is on its way out of _process_frame
\* ------------------------------------------------------------------------

\* deque.append with maxlen
DequeAppend(q, x) ==
    IF Len(q) >= PositionCap THEN Append(Tail(q), x) ELSE Append(q, x)

\* log_detection_event: the row inserted at time t into the rows ev
EventRow(ev, t, event_type, camera_id, snapshot_path, details) ==
    [id |-> Len(ev) + 1, timestamp |-> t, event_type |-> event_type,
     camera_id |-> camera_id, snapshot_path |-> snapshot_path, details |-> details]

\* _save_snapshot: the file name chosen for camera_id.  The name carries the
\* time of the call to the microsecond: it is a name no file, Track or row has
SnapshotName(w, camera_id) ==
    LET named == w.files
                 \cup {w.tracks[k].snapshot_path : k \in DOMAIN w.tracks}
                 \cup {w.events[i].snapshot_path : i \in 1..Len(w.events)}
        taken == {q[2] : q \in {path \in named : path # NoPath}}
    IN  <<camera_id, IF taken = {} THEN 1
                     ELSE 1 + CHOOSE n \in taken : \A k \in taken : k <= n>>

\* mutant of log_detection_event: the error of the INSERT leaves the call
log_detection_event_Propagate(w, event_type, camera_id, snapshot_path, details, t) ==
    IF w.io.db_ok
    THEN [w EXCEPT !.events = Append(@, EventRow(@, t, event_type, camera_id,
                                                 snapshot_path, details))]
    ELSE [w EXCEPT !.raised = TRUE]

\* DatabaseManager.log_detection_event: the row is inserted, or the error of
\* the INSERT is caught and logged and the call returns False
log_detection_event(w, event_type, camera_id, snapshot_path, details, t) ==
    IF w.io.db_ok
    THEN [w EXCEPT !.events = Append(@, EventRow(@, t, event_type, camera_id,
                                                 snapshot_path, details))]
    ELSE w

\* mutant of log_direction_event: a new snapshot is taken for the event
log_direction_event_Resnap(w, camera_id, track_id, event_type, t) ==
    LET snapshot_path == SnapshotName(w, camera_id)
        w1 == [w EXCEPT !.foot = [@ EXCEPT ![<<camera_id, event_type>>] = @ + 1],
                        !.files = @ \cup {snapshot_path}]
        w2 == IF event_type \in {"entry", "exit"}
              THEN log_detection_event(w1, event_type, camera_id, snapshot_path,
                                       track_id, t)
              ELSE w1
    IN  IF w2.raised THEN w2
        ELSE [w2 EXCEPT !.emitted = Append(@, [event |-> event_type, camera |-> camera_id,
                                               track_id |-> track_id])]

\* _log_direction_event(camera_id, track_id, event_type, frame): the footfall
\* is recorded, then the row is written, then the event is emitted; an
\* exception leaving the write would skip the emission
log_direction_event(w, camera_id, track_id, event_type, t) ==
    LET snapshot_path == w.tracks[track_id].snapshot_path
        w1 == [w EXCEPT !.foot = [@ EXCEPT ![<<camera_id, event_type>>] = @ + 1]]
        w2 == IF event_type \in {"entry", "exit"}
              THEN log_detection_event(w1, event_type, camera_id, snapshot_path,
                                       track_id, t)
              ELSE w1
    IN  IF w2.raised THEN w2
        ELSE [w2 EXCEPT !.emitted = Append(@, [event |-> event_type, camera |-> camera_id,
                                               track_id |-> track_id])]

\* mutant of NewTrack: the birth is written to detection_events
NewTrack_LogStart(w, camera_id, track_id, center, in_roi, t) ==
    LET snapshot_path == SnapshotName(w, camera_id)
        info == [positions |-> <<center>>,
                 last_seen |-> t,
                 direction_computed |-> FALSE,
                 movement_direction |-> None,
                 first_seen |-> t,
                 snapshot_path |-> NoPath,
                 in_roi |-> in_roi,
                 roi_status_changed |-> FALSE,
                 direction_logged |-> FALSE]
        w1 == [w EXCEPT !.tracks = (track_id :> info) @@ @]
    IN  CASE w.io.snapshot = "raises" -> [w1 EXCEPT !.raised = TRUE]
          [] OTHER ->
               [w1 EXCEPT
                  !.tracks[track_id].snapshot_path = snapshot_path,
                  !.files = IF w.io.snapshot = "written" THEN @ \cup {snapshot_path}
                            ELSE @,
                  !.events = Append(@, EventRow(@, t, "detection_start", camera_id,
                                                snapshot_path, track_id)),
                  !.emitted = Append(@, [event |-> "detection_start",
                                         camera |-> camera_id,
                                         track_id |-> track_id])]

\* the new-track branch of _update_track_state: the Track is stored without
\* a snapshot path, then _save_snapshot runs.  os.makedirs or cv2.imwrite
\* raises and the exception leaves _update_track_state; or cv2.imwrite
\* returns False, no file is written and the chosen name is returned all the
\* same; or the file is written
NewTrack(w, camera_id, track_id, center, in_roi, t) ==
    LET snapshot_path == SnapshotName(w, camera_id)
        info == [positions |-> <<center>>,
                 last_seen |-> t,
                 direction_computed |-> FALSE,
                 movement_direction |-> None,
                 first_seen |-> t,
                 snapshot_path |-> NoPath,
                 in_roi |-> in_roi,
                 roi_status_changed |-> FALSE,
                 direction_logged |-> FALSE]
        w1 == [w EXCEPT !.tracks = (track_id :> info) @@ @]
    IN  CASE w.io.snapshot = "raises" -> [w1 EXCEPT !.raised = TRUE]
          [] OTHER ->
               [w1 EXCEPT
                  !.tracks[track_id].snapshot_path = snapshot_path,
                  !.files = IF w.io.snapshot = "written" THEN @ \cup {snapshot_path}
                            ELSE @,
                  !.emitted = Append(@, [event |-> "detection_start",
                                         camera |-> camera_id,
                                         track_id |-> track_id])]

\* mutant of RoiCrossing: the crossing does not latch direction_logged
RoiCrossing_NoLatch(w, camera_id, track_id, in_roi, t) ==
    LET track_info == w.tracks[track_id]
        label == IF in_roi THEN "entry" ELSE "exit"
    IN  IF in_roi # track_info.in_roi
        THEN LET w1 == IF ~track_info.direction_logged
                          \/ track_info.movement_direction # label
                       THEN [log_direction_event(w, camera_id, track_id, label, t)
                               EXCEPT !.tracks[track_id].movement_direction = label]
                       ELSE w
             IN  [w1 EXCEPT !.tracks[track_id].roi_status_changed = TRUE]
        ELSE w

\* the ROI boundary crossing of the existing-track branch
RoiCrossing(w, camera_id, track_id, in_roi, t) ==
    LET track_info == w.tracks[track_id]
        label == IF in_roi THEN "entry" ELSE "exit"
    IN  IF in_roi # track_info.in_roi
        THEN LET w1 == IF ~track_info.direction_logged
                          \/ track_info.movement_direction # label
                       THEN [log_direction_event(w, camera_id, track_id, label, t)
                               EXCEPT !.tracks[track_id].direction_logged = TRUE,
                                      !.tracks[track_id].movement_direction = label]
                       ELSE w
             IN  [w1 EXCEPT !.tracks[track_id].roi_status_changed = TRUE]
        ELSE w

\* the movement-vector classification of the existing-track branch
DirectionCheck(w, rs, camera_id, track_id, t) ==
    LET track_info == w.tracks[track_id]
        direction_check_needed ==
            (Len(track_info.positions) >= 3 /\ ~track_info.direction_logged)
            \/ track_info.roi_status_changed
        movement_vector == calculate_movement_vector(track_info.positions)
        direction == determine_direction(rs, camera_id, movement_vector)
    IN  IF direction_check_needed /\ movement_vector # NoVector
           /\ direction # None /\ ~track_info.direction_logged
        THEN [log_direction_event(w, camera_id, track_id, direction, t)
                EXCEPT !.tracks[track_id].direction_computed = TRUE,
                       !.tracks[track_id].movement_direction = direction,
                       !.tracks[track_id].direction_logged = TRUE,
                       !.tracks[track_id].roi_status_changed = FALSE]
        ELSE w

\* mutant of update_track_state: the centroid is tested against the
\* rectangle in the coordinates of the crop
update_track_state_CropTest(w, rs, camera_id, track_id, center, roi, t) ==
    LET in_roi == 0 <= center[1] /\ center[1] <= roi[3] - roi[1]
                  /\ 0 <= center[2] /\ center[2] <= roi[4] - roi[2]
    IN  IF track_id \notin DOMAIN w.tracks
        THEN NewTrack(w, camera_id, track_id, center, in_roi, t)
        ELSE LET w1 == RoiCrossing(w, camera_id, track_id, in_roi, t)
                 w2 == [w1 EXCEPT !.tracks[track_id].positions = DequeAppend(@, center)]
                 w3 == DirectionCheck(w2, rs, camera_id, track_id, t)
             IN  [w3 EXCEPT !.tracks[track_id].last_seen = t,
                            !.tracks[track_id].in_roi = in_roi]

\* _update_track_state(camera_id, track_id, center_x, center_y, roi_x1, roi_y1,
\*                     roi_x2, roi_y2, frame, current_time)
update_track_state(w, rs, camera_id, track_id, center, roi, t) ==
    LET in_roi == roi[1] <= center[1] /\ center[1] <= roi[3]
                  /\ roi[2] <= center[2] /\ center[2] <= roi[4]
    IN  IF track_id \notin DOMAIN w.tracks
        THEN NewTrack(w, camera_id, track_id, center, in_roi, t)
        ELSE LET w1 == RoiCrossing(w, camera_id, track_id, in_roi, t)
                 w2 == [w1 EXCEPT !.tracks[track_id].positions = DequeAppend(@, center)]
                 w3 == DirectionCheck(w2, rs, camera_id, track_id, t)
             IN  [w3 EXCEPT !.tracks[track_id].last_seen = t,
                            !.tracks[track_id].in_roi = in_roi]

\* the ROI of _process_frame: whether the frame is cropped and the rectangle
\* <<rx1, ry1, rx2, ry2>> the centroids are tested against
FrameRegion(rs, camera_id) ==
    LET frame_width == FrameWidth(camera_id)
        frame_height == FrameHeight(camera_id)
        full == [has_roi |-> FALSE, roi |-> <<0, 0, frame_width, frame_height>>]
    IN  IF camera_id \in DOMAIN rs /\ "coords" \in DOMAIN rs[camera_id]
        THEN LET roi_coords == rs[camera_id].coords
                 scaled == 2 * frame_width > 3 * canvas_width
                 sx(v) == IF scaled THEN (v * frame_width) \div canvas_width ELSE v
                 sy(v) == IF scaled THEN (v * frame_height) \div canvas_height ELSE v
                 rx1 == Max(0, Min(sx(roi_coords[1]), frame_width))
                 ry1 == Max(0, Min(sy(roi_coords[2]), frame_height))
                 rx2 == Max(0, Min(sx(roi_coords[3]), frame_width))
                 ry2 == Max(0, Min(sy(roi_coords[4]), frame_height))
             IN  IF Len(roi_coords) # 4 THEN full
                 ELSE IF rx2 <= rx1 \/ ry2 <= ry1
                 THEN \* roi_frame.size == 0
                      full
                 ELSE [has_roi |-> TRUE, roi |-> <<rx1, ry1, rx2, ry2>>]
        ELSE full

\* the loop over the boxes of one frame, from box i on; seen is track_ids_seen.
\* An exception that leaves _update_track_state ends the loop
RECURSIVE ProcessBoxes(_, _, _, _, _, _, _, _)
ProcessBoxes(w, seen, rs, camera_id, boxes, i, region, t) ==
    IF i > Len(boxes) \/ w.raised THEN [w |-> w, track_ids_seen |-> seen]
    ELSE LET box == boxes[i]
         IN  IF box.cls = person_class_id /\ box.id # 0
             THEN LET center == IF region.has_roi
                                THEN <<box.center[1] + region.roi[1],
                                       box.center[2] + region.roi[2]>>
                                ELSE box.center
                  IN  ProcessBoxes(update_track_state(w, rs, camera_id, box.id, center,
                                                      region.roi, t),
                                   seen \cup {box.id}, rs, camera_id, boxes, i + 1,
                                   region, t)
             ELSE ProcessBoxes(w, seen, rs, camera_id, boxes, i + 1, region, t)

\* mutant of RemoveExpired: a track is removed at the expiry window already
RemoveExpired_AtWindow(tracks, seen, t) ==
    LET expired_tracks == {track_id \in DOMAIN tracks :
                              track_id \notin seen
                              /\ t - tracks[track_id].last_seen >= TrackExpiry}
    IN  [track_id \in DOMAIN tracks \ expired_tracks |-> tracks[track_id]]

\* the tracks left after the expired ones are removed
RemoveExpired(tracks, seen, t) ==
    LET expired_tracks == {track_id \in DOMAIN tracks :
                              track_id \notin seen
                              /\ t - tracks[track_id].last_seen > TrackExpiry}
    IN  [track_id \in DOMAIN tracks \ expired_tracks |-> tracks[track_id]]

\* _update_detection_state(camera_id, person_present, frame)
update_detection_state(state, person_present, t) ==
    IF person_present
    THEN IF ~state.person_detected
         THEN [state EXCEPT !.person_detected = TRUE,
                            !.last_detection_time = t,
                            !.no_person_counter = 0]
         ELSE state
    ELSE IF state.person_detected
         THEN IF state.no_person_counter + 1 >= NoPersonFrames
              THEN [state EXCEPT !.no_person_counter = @ + 1, !.person_detected = FALSE]
              ELSE [state EXCEPT !.no_person_counter = @ + 1]
         ELSE state

\* 1.0 / idle_fps and 1.0 / active_fps with the default rates, in milliseconds
frame_interval_idle == 1000
frame_interval_active == 200

\* a worker that always waits the idle interval
current_interval_Idle(state) ==
    frame_interval_idle

\* the interval a worker waits between two frames, before the adjustment to
\* the load of the machine
current_interval(state) ==
    LET is_person_detected == state.person_detected
    IN  IF is_person_detected THEN frame_interval_active ELSE frame_interval_idle

\* the event store and the snapshot directory work
Healthy == [db_ok |-> TRUE, snapshot |-> "written"]

\* _process_frame(frame, camera_id) on the boxes returned by model.track, at
\* the clock value t; io is what the event store and the snapshot directory
\* do during the frame.  An exception leaves _process_frame before the
\* expired tracks are removed and the detection state is updated, and is
\* caught by the loop of _run_detection_for_camera
ProcessFrame(camera_id, boxes, t, io) ==
    LET region == FrameRegion(roi_settings, camera_id)
        w0 == [tracks |-> track_states[camera_id], events |-> detection_events,
               files |-> snapshot_files, emitted |-> emitted, foot |-> footfalls,
               io |-> io, raised |-> FALSE]
        r == ProcessBoxes(w0, {}, roi_settings, camera_id, boxes, 1, region, t)
        any_person_found == r.track_ids_seen # {}
    IN  /\ track_states' = [track_states EXCEPT
                               ![camera_id] = IF r.w.raised THEN r.w.tracks
                                              ELSE RemoveExpired(r.w.tracks,
                                                                 r.track_ids_seen, t)]
        /\ detection_events' = r.w.events
        /\ snapshot_files' = r.w.files
        /\ emitted' = r.w.emitted
        /\ footfalls' = r.w.foot
        /\ states' = [states EXCEPT
                         ![camera_id] = IF r.w.raised THEN @
                                        ELSE update_detection_state(@, any_person_found, t)]
        /\ last_frame' = [last_frame EXCEPT
                             ![camera_id] = [t |-> t, has_roi |-> region.has_roi,
                                             roi |-> region.roi,
                                             any_person_found |-> any_person_found,
                                             track_ids_seen |-> r.track_ids_seen,
                                             io |-> io, raised |-> r.w.raised]]
        /\ UNCHANGED last_status
        /\ empty_run' = [empty_run EXCEPT
                            ![camera_id] = IF any_person_found THEN 0 ELSE Min(@ + 1, NoPersonFrames)]

\* ------------------------------------------------------------------------
\* ROI configuration
\*
\* The in-memory settings and the camera_config table are threaded through a
\* record m: m.rs is roi_settings, m.cfg is camera_config, m.ok the value
\* returned by the last call.
\* ------------------------------------------------------------------------

\* the cameras of the registry (camera_registry.get_camera finds them)
Registered == Cameras

\* dict without the key k
Without(f, k) == [x \in DOMAIN f \ {k} |-> f[x]]

\* save_camera_roi with a plain INSERT into a table without primary key
save_camera_roi_Insert(cfg, camera_id, roi, entry_dir) ==
    cfg \cup {[camera_id |-> camera_id, roi_x1 |-> roi[1], roi_y1 |-> roi[2],
               roi_x2 |-> roi[3], roi_y2 |-> roi[4], entry_direction |-> entry_dir]}

\* DatabaseManager.save_camera_roi: INSERT OR REPLACE INTO camera_config, whose
\* primary key is camera_id: the row in conflict is deleted, the new one
\* inserted
save_camera_roi(cfg, camera_id, roi, entry_dir) ==
    {row \in cfg : row.camera_id # camera_id}
    \cup {[camera_id |-> camera_id, roi_x1 |-> roi[1], roi_y1 |-> roi[2],
            roi_x2 |-> roi[3], roi_y2 |-> roi[4], entry_direction |-> entry_dir]}

\* DatabaseManager.get_camera_roi: the dict made of cursor.fetchone(), <<>>
\* for Python None
get_camera_roi(cfg, camera_id) ==
    LET rows == {r \in cfg : r.camera_id = camera_id}
    IN  IF rows = {} THEN <<>>
        ELSE LET row == CHOOSE r \in rows : TRUE
             IN  [coords |-> [x1 |-> row.roi_x1, y1 |-> row.roi_y1,
                              x2 |-> row.roi_x2, y2 |-> row.roi_y2],
                  entry_direction |-> row.entry_direction]

\* DatabaseManager.delete_camera_roi: DELETE FROM camera_config WHERE camera_id = ?
delete_camera_roi(cfg, camera_id) == {row \in cfg : row.camera_id # camera_id}

\* DetectionManager.set_roi(camera_id, roi_coords)
set_roi(m, camera_id, roi_coords) ==
    IF camera_id \notin Registered THEN [m EXCEPT !.ok = FALSE]
    ELSE IF Len(roi_coords) # 4 THEN [m EXCEPT !.ok = FALSE]
    ELSE LET entry_direction ==
                 IF camera_id \in DOMAIN m.rs
                    /\ "entry_direction" \in DOMAIN m.rs[camera_id]
                 THEN m.rs[camera_id].entry_direction
                 ELSE <<"LTR">>
         IN  [ok |-> TRUE,
              rs |-> (camera_id :> [coords |-> roi_coords,
                                    entry_direction |-> entry_direction])
                     @@ Without(m.rs, camera_id),
              cfg |-> save_camera_roi(m.cfg, camera_id, roi_coords, entry_direction)]

\* the validation of set_entry_direction: TRUE when the value is refused
EntryDirectionRefused(entry_direction) ==
    LET is_vector_format == Len(entry_direction) > 1
    IN  IF ~is_vector_format
        THEN entry_direction[1] \notin valid_directions
        ELSE \* x, y = map(float, entry_direction.split(','))
             \/ Len(entry_direction) # 2
             \/ FloatFails(entry_direction[1])
             \/ FloatFails(entry_direction[2])
             \/ MagnitudeBelowEps(FloatE7(entry_direction[1]), FloatE7(entry_direction[2]))

\* DetectionManager.set_entry_direction(camera_id, entry_direction)
set_entry_direction(m, camera_id, entry_direction) ==
    IF camera_id \notin Registered THEN [m EXCEPT !.ok = FALSE]
    ELSE IF EntryDirectionRefused(entry_direction) THEN [m EXCEPT !.ok = FALSE]
    ELSE LET has_coords == camera_id \in DOMAIN m.rs /\ "coords" \in DOMAIN m.rs[camera_id]
             entry == IF has_coords
                      THEN [coords |-> m.rs[camera_id].coords,
                            entry_direction |-> entry_direction]
                      ELSE [entry_direction |-> entry_direction]
         IN  [ok |-> TRUE,
              rs |-> (camera_id :> entry) @@ Without(m.rs, camera_id),
              cfg |-> IF has_coords
                      THEN save_camera_roi(m.cfg, camera_id, m.rs[camera_id].coords,
                                           entry_direction)
                      ELSE m.cfg]

\* DetectionManager.clear_roi(camera_id)
clear_roi(m, camera_id) ==
    IF camera_id \notin Registered THEN [m EXCEPT !.ok = FALSE]
    ELSE [ok |-> TRUE,
          rs |-> Without(m.rs, camera_id),
          cfg |-> delete_camera_roi(m.cfg, camera_id)]

\* POST /api/cameras/<camera_id>/roi with body {x1, y1, x2, y2, entry_direction}
PostRoi(camera_id, roi, entry_dir) ==
    LET m0 == [ok |-> TRUE, rs |-> roi_settings, cfg |-> camera_config]
        m1 == set_roi(m0, camera_id, roi)
        m2 == set_entry_direction(m1, camera_id, entry_dir)
    IN  /\ roi_settings' = m2.rs
        /\ camera_config' = m2.cfg
        /\ api_request' = [path |-> "roi", camera_id |-> camera_id, roi |-> roi,
                           entry_direction |-> entry_dir]
        /\ api_response' = [success |-> TRUE]

\* POST /api/cameras/<camera_id>/roi/clear
PostRoiClear(camera_id) ==
    LET m1 == clear_roi([ok |-> TRUE, rs |-> roi_settings, cfg |-> camera_config],
                        camera_id)
    IN  /\ roi_settings' = m1.rs
        /\ camera_config' = m1.cfg
        /\ api_request' = [path |-> "roi/clear", camera_id |-> camera_id, roi |-> <<>>,
                           entry_direction |-> <<>>]
        /\ api_response' = [success |-> TRUE]

\* ------------------------------------------------------------------------
\* Initial state: after construction, empty store, no ROI configured
\* ------------------------------------------------------------------------
InitialState ==
    [person_detected |-> FALSE, last_detection_time |-> 0, no_person_counter |-> 0]

TrackInit ==
    /\ track_states = [c \in Cameras |-> <<>>]
    /\ states = [c \in Cameras |-> InitialState]
    /\ last_frame = [c \in Cameras |->
                        [t |-> 0, has_roi |-> FALSE,
                         roi |-> <<0, 0, FrameWidth(c), FrameHeight(c)>>,
                         any_person_found |-> FALSE, track_ids_seen |-> {},
                         io |-> Healthy, raised |-> FALSE]]
    /\ empty_run = [c \in Cameras |-> 0]
    /\ detection_events = <<>>
    /\ snapshot_files = {}
    /\ emitted = <<>>
    /\ footfalls = [k \in Cameras \X {"entry", "exit"} |-> 0]
    /\ last_status = [person_detected |-> FALSE, direction |-> "unknown"]
    /\ now = 0

RoiInit ==
    /\ roi_settings = <<>>
    /\ camera_config = {}
    /\ reloaded_roi_settings = <<>>
    /\ roi_call = [pc |-> "idle", op |-> "none", camera_id |-> None,
                   entry_direction |-> <<>>, ok |-> FALSE]
    /\ api_request = [path |-> "none", camera_id |-> "none", roi |-> <<>>,
                      entry_direction |-> <<>>]
    /\ api_response = [success |-> TRUE]

\* the threads that call log_detection_event: the detection workers of two
\* cameras and the dashboard monitor
DbThreads == {"detection-main", "detection-cam2", "dashboard"}

\* no call on the camera tables was made
NoCall == [op |-> "none", camera_id |-> None, source |-> None, nested |-> FALSE,
           ok |-> FALSE, rows |-> {}]

DbInit ==
    /\ db_lock = "free"
    /\ db_pc = [th \in DbThreads |-> "idle"]
    /\ db_timestamp = [th \in DbThreads |-> 0]
    /\ db_clock = 0
    /\ cameras_table = {}
    /\ db_call = [th \in DbThreads |-> NoCall]

CaptureThreads == 1..MaxCaptureThreads

\* the thread that calls start() and stop()
Caller == -1

\* CameraManager.__init__ with a device_id of the given kind, and the locals
\* of a _capture_loop not yet started
SourceInitOf(kind) ==
    /\ source_kind = kind
    /\ cam_is_running = FALSE
    /\ cam_thread = 0
    /\ cam_is_initialized = FALSE
    /\ reconnection_attempts = 0
    /\ initialization_lock = 0
    /\ frame_queue = <<>>
    /\ latest_frame = 0
    /\ capture = [p \in CaptureThreads |->
                    [pc |-> "unborn", cap |-> "none", retry_count |-> 0,
                     in_warmup_period |-> FALSE, consecutive_failures |-> 0,
                     video_finished |-> FALSE]]
    /\ source_call = "idle"
    /\ last_read = 0
    /\ open_failures = 0

DetectionThreads == 1..MaxDetectionThreads

Idle == [op |-> "idle", camera |-> None, pending |-> {}]

\* DetectionManager.__init__ and freshly constructed cameras
WorkerInit ==
    /\ is_running = FALSE
    /\ detection_threads = [c \in Cameras |-> 0]
    /\ camera_is_running = [c \in Cameras |-> FALSE]
    /\ stop_detection = [c \in Cameras |-> FALSE]
    /\ detection_worker = [t \in DetectionThreads |-> [camera |-> None, pc |-> "unborn"]]
    /\ manager_call = Idle
    /\ last_return = [op |-> "none", camera |-> None]
    /\ shutdown = [pc |-> "running", log |-> <<>>]

\* an empty snapshot directory, no sweep done yet
StorageInit ==
    /\ storage_root = {}
    /\ storage_dirs = <<>>
    /\ storage_written = 0
    /\ last_sweep = [n |-> 0, failed |-> FALSE]

\* CameraRegistry.__init__ has installed the CameraManager of the default
\* camera "main" (device_id 0) and is about to start it
RegistryInit ==
    registry = [pc |-> "starting", camera |-> 1, source |-> "0", op |-> "add_camera",
                arg |-> "0", same |-> FALSE, ret |-> FALSE]

\* no direction check has run
NotClassified ==
    [camera_id |-> None, positions |-> <<>>, movement_vector |-> NoVector,
     direction |-> None]

Init ==
    /\ TrackInit /\ RoiInit /\ DbInit /\ WorkerInit /\ StorageInit
    /\ SourceInitOf("usb")
    /\ classification = NotClassified
    /\ RegistryInit

\* the same with a Frame Source of any kind, not only the USB camera of the
\* default configuration (device_id 0)
InitSource ==
    /\ TrackInit /\ RoiInit /\ DbInit /\ WorkerInit /\ StorageInit
    /\ \E kind \in {"usb", "ip", "video"} : SourceInitOf(kind)
    /\ classification = NotClassified
    /\ RegistryInit

\* ------------------------------------------------------------------------
\* SpecTrack: the tracking workers process frames while the ROI endpoints are
\* used.  The detector is external: the boxes of a frame are inputs.
\* ------------------------------------------------------------------------

\* centres of the boxes returned by the detector, in the coordinates of the
\* image it was given
BoxCentres == {<<-10, 100>>, <<60, 100>>, <<200, 100>>}

\* seconds between two processed frames
FrameGaps == {1}

Box(id, center) == [cls |-> person_class_id, id |-> id, center |-> center]

\* a person with a tracker id, a person without one, and another class
BoxSet ==
    {Box(id, center) : id \in TrackIds, center \in BoxCentres}
    \cup {Box(0, <<60, 100>>), [cls |-> person_class_id + 1, id |-> 1, center |-> <<60, 100>>]}

\* the results of model.track for one frame: boxes of distinct track ids
FramesOf(boxSet) ==
    UNION {{boxes \in [1..n -> boxSet] :
                \A i, j \in 1..n : i < j => boxes[i].id < boxes[j].id} : n \in 0..MaxBoxes}

\* ROI writes: rectangle drawn on the canvas and entry direction; the last
\* rectangle is inverted
TrackRoiWrites ==
    {<<<<20, 20, 100, 100>>, <<"LTR">>>>,
     <<<<20, 20, 100, 100>>, <<"-1", "0">>>>,
     <<<<100, 20, 20, 100>>, <<"LTR">>>>}

\* the camera SpecTrack feeds frames of
TrackCameras == {"main"}

\* one iteration of _run_detection_for_camera that processes a frame
DetectFrame(camera_id, boxes, gap, limit, io) ==
    /\ now + gap <= limit
    /\ now' = now + gap
    /\ ProcessFrame(camera_id, boxes, now + gap, io)
    /\ UNCHANGED <<roiVars, dbVars, sourceVars, workerVars, storageVars, classification, registry>>

SetRoiConfig(camera_id, roi, entry_dir) ==
    /\ PostRoi(camera_id, roi, entry_dir)
    /\ UNCHANGED <<reloaded_roi_settings, roi_call, trackVars, dbVars, sourceVars, workerVars, storageVars, classification, registry>>

ClearRoiConfig(camera_id) ==
    /\ PostRoiClear(camera_id)
    /\ UNCHANGED <<reloaded_roi_settings, roi_call, trackVars, dbVars, sourceVars, workerVars, storageVars, classification, registry>>

TrackNext ==
    \/ \E c \in TrackCameras, boxes \in FramesOf(BoxSet), gap \in FrameGaps :
           DetectFrame(c, boxes, gap, MaxTime, Healthy)
    \/ \E c \in TrackCameras, wr \in TrackRoiWrites : SetRoiConfig(c, wr[1], wr[2])
    \/ \E c \in TrackCameras : ClearRoiConfig(c)

SpecTrack == Init /\ [][TrackNext]_vars

\* ------------------------------------------------------------------------
\* SpecDirection: the direction check of one Track, on position histories and
\* entry directions of every shape, after the ROI endpoints have been used
\* ------------------------------------------------------------------------

\* track_info['positions'] of a Track seen up to MaxPositions times, at the
\* centroids (0,0), (2,0), (1,4), (1,5)
PositionLists ==
    UNION {[1..n -> {<<0, 0>>, <<2, 0>>, <<1, 4>>, <<1, 5>>}] : n \in 0..MaxPositions}

\* ROI writes with symbolic codes and free vectors, the last one of magnitude
\* 1e-6
DirectionRoiWrites ==
    {<<<<20, 20, 100, 100>>, <<"LTR">>>>,
     <<<<20, 20, 100, 100>>, <<"RTL">>>>,
     <<<<20, 20, 100, 100>>, <<"BTT">>>>,
     <<<<20, 20, 100, 100>>, <<"TLBR">>>>,
     <<<<20, 20, 100, 100>>, <<"IN">>>>,
     <<<<20, 20, 100, 100>>, <<"0", "1">>>>,
     <<<<20, 20, 100, 100>>, <<"0.000001", "0">>>>}

\* _update_track_state, the direction check of a Track without a logged
\* direction: _calculate_movement_vector, then _determine_direction if
\* there is a vector
ClassifyMovement(camera_id, positions) ==
    LET movement_vector == calculate_movement_vector(positions)
        direction == IF movement_vector # NoVector
                     THEN determine_direction(roi_settings, camera_id, movement_vector)
                     ELSE None
    IN  /\ classification' = [camera_id |-> camera_id, positions |-> positions,
                              movement_vector |-> movement_vector,
                              direction |-> direction]
        /\ UNCHANGED <<trackVars, roiVars, dbVars, sourceVars, workerVars, storageVars,
                       registry>>

\* the configuration is written, then one direction check runs
DirectionNext ==
    \/ /\ classification = NotClassified
       /\ \E c \in TrackCameras, wr \in DirectionRoiWrites :
             SetRoiConfig(c, wr[1], wr[2])
    \/ /\ classification = NotClassified
       /\ \E c \in TrackCameras : ClearRoiConfig(c)
    \/ /\ classification = NotClassified
       /\ \E c \in TrackCameras, positions \in PositionLists \ {<<>>} :
             ClassifyMovement(c, positions)

SpecDirection == Init /\ [][DirectionNext]_vars

\* ------------------------------------------------------------------------
\* SpecPresence: frames with and without a person on cameras without ROI
\* ------------------------------------------------------------------------
PresenceFrames == {<<>>, <<Box(1, <<60, 100>>)>>}

\* get_detection_status() without a camera id: the status of every camera,
\* keyed by camera id; current_direction is never written and reads "unknown"
get_detection_status ==
    [cam_id \in DOMAIN states |->
        [camera_id |-> cam_id,
         person_detected |-> states[cam_id].person_detected,
         last_detection_time |-> states[cam_id].last_detection_time,
         direction |-> "unknown"]]

\* one round of DashboardManager._monitor_detections: the status is polled,
\* _process_detection_events compares status.get("person_detected", False)
\* with the one of the last round and writes a detection_end row, without
\* camera id or snapshot path, when it went from true to false
MonitorDetections ==
    LET status == get_detection_status
        was_detected == IF "person_detected" \in DOMAIN last_status
                        THEN last_status["person_detected"] ELSE FALSE
        is_detected == IF "person_detected" \in DOMAIN status
                       THEN status["person_detected"] ELSE FALSE
    IN  /\ detection_events' =
              IF was_detected /\ ~is_detected
              THEN Append(detection_events,
                          EventRow(detection_events, now, "detection_end", None, NoPath, 0))
              ELSE detection_events
        /\ last_status' = status
        /\ UNCHANGED <<track_states, states, last_frame, empty_run, snapshot_files,
                       emitted, footfalls, now, roiVars, dbVars, sourceVars, workerVars,
                       storageVars, classification, registry>>

PresenceNext ==
    \/ \E c \in Cameras, boxes \in PresenceFrames, gap \in FrameGaps :
           DetectFrame(c, boxes, gap, MaxPresenceTime, Healthy)
    \/ MonitorDetections

SpecPresence == Init /\ [][PresenceNext]_vars

\* ------------------------------------------------------------------------
\* SpecFaults: frames are processed while INSERTs into detection_events fail
\* and snapshot files cannot be written
\* ------------------------------------------------------------------------

\* what the event store and the snapshot directory do during one frame
IoOutcomes == [db_ok : BOOLEAN, snapshot : {"written", "not_written", "raises"}]

\* a person outside and inside the region of interest
FaultFrames ==
    FramesOf({Box(id, center) : id \in TrackIds, center \in {<<-10, 100>>, <<60, 100>>}})

FaultsNext ==
    \/ \E c \in TrackCameras, boxes \in FaultFrames, gap \in FrameGaps, io \in IoOutcomes :
           DetectFrame(c, boxes, gap, MaxFaultTime, io)
    \/ /\ now = 0
       /\ \E c \in TrackCameras : SetRoiConfig(c, <<20, 20, 100, 100>>, <<"LTR">>)

SpecFaults == Init /\ [][FaultsNext]_vars

\* ------------------------------------------------------------------------
\* SpecGaps: the worker of a camera pauses for longer than the track-expiry
\* window between two processed frames, and detection is stopped and started
\* again
\* ------------------------------------------------------------------------

\* seconds between two processed frames: the usual interval, and a pause
\* longer than the track-expiry window (no frame from the camera, or no
\* worker)
PauseGaps == {1, TrackExpiry + 1}

\* a person inside the image, with a tracker id
GapFrames == FramesOf({Box(id, <<60, 100>>) : id \in TrackIds})

\* stop_all() followed by start_all(): the detection state of every camera
\* with a worker is reset and position_history is cleared; track_states is
\* not touched by either
RestartDetection ==
    /\ states' = [c \in Cameras |-> IF c \in TrackCameras THEN InitialState ELSE states[c]]
    /\ UNCHANGED <<track_states, last_frame, empty_run, detection_events, snapshot_files,
                   emitted, footfalls, last_status, now, roiVars, dbVars, sourceVars,
                   workerVars, storageVars, classification, registry>>

GapsNext ==
    \/ \E c \in TrackCameras, boxes \in GapFrames, gap \in PauseGaps :
           DetectFrame(c, boxes, gap, MaxGapTime, Healthy)
    \/ RestartDetection

SpecGaps == Init /\ [][GapsNext]_vars

\* ------------------------------------------------------------------------
\* SpecRoi: the ROI endpoints
\* ------------------------------------------------------------------------
RoiCameras == Cameras \cup {"nocam"}

RoiRects == {<<20, 20, 100, 100>>, <<40, 40, 200, 200>>}

RoiDirections ==
    {<<"LTR">>, <<"RTL">>, <<"IN">>, <<"1", "0">>, <<"0", "-1">>,
     <<"XYZ">>, <<"ltr">>, <<"0", "0">>, <<"0.0000001", "0">>, <<"a", "1">>,
     <<"1", "0", "1">>}

\* DetectionManager.__init__ over the store as it is: _load_roi_settings.
\* roi_data['coords'] is a dict, and x1, y1, x2, y2 = <dict> binds the four
\* names to its keys.
LoadRoiSettings ==
    /\ reloaded_roi_settings' =
          LET loaded == {camera_id \in Registered :
                            LET roi_data == get_camera_roi(camera_config, camera_id)
                            IN  roi_data # <<>> /\ roi_data.entry_direction # <<>>}
          IN  [camera_id \in loaded |->
                  [coords |-> <<[str |-> "x1"], [str |-> "y1"],
                                [str |-> "x2"], [str |-> "y2"]>>,
                   entry_direction |->
                       get_camera_roi(camera_config, camera_id).entry_direction]]
    /\ UNCHANGED <<roi_settings, camera_config, api_request, api_response, roi_call,
                   trackVars, dbVars, sourceVars, workerVars, storageVars,
                   classification, registry>>

\* the ROI endpoints are used, then a DetectionManager is constructed over
\* the store they left
RoiNext ==
    \/ /\ reloaded_roi_settings = <<>>
       /\ \E c \in RoiCameras, roi \in RoiRects, d \in RoiDirections :
             SetRoiConfig(c, roi, d)
    \/ /\ reloaded_roi_settings = <<>>
       /\ \E c \in RoiCameras : ClearRoiConfig(c)
    \/ LoadRoiSettings

SpecRoi == Init /\ [][RoiNext]_vars

\* ------------------------------------------------------------------------
\* SpecRoiCalls: the handler of POST /api/cameras/<camera_id>/roi calls
\* set_roi and then set_entry_direction; the server handles requests in
\* threads, so a roi/clear request can be served between the two calls
\* ------------------------------------------------------------------------

\* the handler calls detection_manager.set_roi(camera_id, roi)
HandlerSetRoi(camera_id, roi, entry_dir) ==
    LET m1 == set_roi([ok |-> TRUE, rs |-> roi_settings, cfg |-> camera_config],
                      camera_id, roi)
    IN  /\ roi_call.pc = "idle"
        /\ roi_settings' = m1.rs
        /\ camera_config' = m1.cfg
        /\ roi_call' = [pc |-> "set_entry_direction", op |-> "set_roi",
                        camera_id |-> camera_id, entry_direction |-> entry_dir,
                        ok |-> m1.ok]
        /\ UNCHANGED <<api_request, api_response, reloaded_roi_settings, trackVars,
                       dbVars, sourceVars, workerVars, storageVars, classification,
                       registry>>

\* the handler calls detection_manager.set_entry_direction(camera_id, entry_dir)
\* and responds
HandlerSetEntryDirection ==
    LET m2 == set_entry_direction([ok |-> TRUE, rs |-> roi_settings,
                                   cfg |-> camera_config],
                                  roi_call.camera_id, roi_call.entry_direction)
    IN  /\ roi_call.pc = "set_entry_direction"
        /\ roi_settings' = m2.rs
        /\ camera_config' = m2.cfg
        /\ roi_call' = [roi_call EXCEPT !.pc = "idle", !.op = "set_entry_direction",
                                        !.ok = m2.ok]
        /\ api_request' = [path |-> "roi", camera_id |-> roi_call.camera_id,
                           roi |-> <<>>, entry_direction |-> roi_call.entry_direction]
        /\ api_response' = [success |-> TRUE]
        /\ UNCHANGED <<reloaded_roi_settings, trackVars, dbVars, sourceVars, workerVars,
                       storageVars, classification, registry>>

RoiCallsNext ==
    \/ \E c \in RoiCameras, roi \in RoiRects, d \in RoiDirections :
           HandlerSetRoi(c, roi, d)
    \/ HandlerSetEntryDirection
    \/ \E c \in RoiCameras : ClearRoiConfig(c)

SpecRoiCalls == Init /\ [][RoiCallsNext]_vars

\* ------------------------------------------------------------------------
\* SpecDb: threads calling DatabaseManager.log_detection_event concurrently
\* ------------------------------------------------------------------------

\* clock ticks per second
TicksPerSecond == 2

\* datetime.strftime("%Y-%m-%d %H:%M:%S"): the clock cut to whole seconds
FormatTimestamp(clock) == clock \div TicksPerSecond

dbOther == <<track_states, states, last_frame, empty_run, snapshot_files, emitted,
             footfalls, last_status, now, roiVars, sourceVars, workerVars, storageVars,
             classification, registry, cameras_table, db_call>>

\* mutant of DbAcquire: the lock is taken without waiting for it to be free
DbAcquire_NoWait(th) ==
    /\ db_pc[th] = "idle"
    /\ Len(detection_events) < MaxRows
    /\ db_lock' = th
    /\ db_pc' = [db_pc EXCEPT ![th] = "connected"]
    /\ UNCHANGED <<db_timestamp, db_clock, detection_events, dbOther>>

\* with self.db_lock: entry
DbAcquire(th) ==
    /\ db_pc[th] = "idle"
    /\ Len(detection_events) < MaxRows
    /\ db_lock = "free"
    /\ db_lock' = th
    /\ db_pc' = [db_pc EXCEPT ![th] = "connected"]
    /\ UNCHANGED <<db_timestamp, db_clock, detection_events, dbOther>>

\* timestamp = datetime.now(pytz.UTC).strftime(...)
DbStamp(th) ==
    /\ db_pc[th] = "connected"
    /\ db_timestamp' = [db_timestamp EXCEPT ![th] = FormatTimestamp(db_clock)]
    /\ db_pc' = [db_pc EXCEPT ![th] = "stamped"]
    /\ UNCHANGED <<db_lock, db_clock, detection_events, dbOther>>

\* cursor.execute("INSERT INTO detection_events ...") and conn.commit()
DbInsert(th, event_type) ==
    /\ db_pc[th] = "stamped"
    /\ detection_events' = Append(detection_events,
                                  EventRow(detection_events, db_timestamp[th], event_type,
                                           th, NoPath, 0))
    /\ db_pc' = [db_pc EXCEPT ![th] = "returning"]
    /\ UNCHANGED <<db_lock, db_timestamp, db_clock, dbOther>>

\* an sqlite3 error anywhere in the try block: logged, nothing inserted
DbError(th) ==
    /\ db_pc[th] \in {"connected", "stamped"}
    /\ db_pc' = [db_pc EXCEPT ![th] = "returning"]
    /\ UNCHANGED <<db_lock, db_timestamp, db_clock, detection_events, dbOther>>

\* with self.db_lock: exit
DbRelease(th) ==
    /\ db_pc[th] = "returning"
    /\ db_lock' = "free"
    /\ db_pc' = [db_pc EXCEPT ![th] = "idle"]
    /\ UNCHANGED <<db_timestamp, db_clock, detection_events, dbOther>>

\* the wall clock advances
DbTick ==
    /\ db_clock < MaxDbClock
    /\ db_clock' = db_clock + 1
    /\ UNCHANGED <<db_lock, db_pc, db_timestamp, detection_events, dbOther>>

DbNext ==
    \/ \E th \in DbThreads : DbAcquire(th)
    \/ \E th \in DbThreads : DbStamp(th)
    \/ \E th \in DbThreads, ty \in {"entry", "detection_end"} : DbInsert(th, ty)
    \/ \E th \in DbThreads : DbError(th)
    \/ \E th \in DbThreads : DbRelease(th)
    \/ DbTick

SpecDb == Init /\ [][DbNext]_vars

\* ------------------------------------------------------------------------
\* SpecCameraTable: threads calling the camera operations of the
\* DatabaseManager (add_camera, list_cameras, remove_camera, get_cameras,
\* delete_camera_roi, get_camera_roi) and log_detection_event on a store whose
\* tables were created by _init_database.  db_lock is a threading.Lock, which
\* is not reentrant.
\* ------------------------------------------------------------------------

\* the columns of the tables as _init_database creates them
camera_config_columns ==
    {"camera_id", "roi_x1", "roi_y1", "roi_x2", "roi_y2", "entry_direction"}

cameras_columns ==
    {"camera_id", "source", "name", "width", "height", "fps", "enabled",
     "created_at", "updated_at"}

\* cursor.execute of a statement that names the columns cols of a table:
\* sqlite3.OperationalError (no such column) unless the table has them all
Executes(cols, table_columns) == cols \subseteq table_columns

\* the sources of the cameras added at run time
CameraSources == {"0", "videos/cam_test.mp4"}

tableOther == <<trackVars, roi_settings, api_request, api_response,
                reloaded_roi_settings, roi_call, db_timestamp, db_clock, sourceVars,
                workerVars, storageVars, classification, registry>>

\* the try block of add_camera(camera_id, source, name): INSERT OR REPLACE INTO
\* cameras, SELECT from camera_config, then UPDATE or INSERT of the columns
\* source, name, width, height, fps (and enabled) of camera_config, and
\* conn.commit(); an exception is logged and False returned, and the
\* connection is dropped without commit
add_camera(tbl, cfg, camera_id, source) ==
    LET insert_cameras ==
            Executes({"camera_id", "source", "name", "width", "height", "fps",
                      "updated_at"}, cameras_columns)
        select_config == Executes({"camera_id"}, camera_config_columns)
        row == {r \in cfg : r.camera_id = camera_id}
        write_config ==
            IF row # {}
            THEN Executes({"source", "name", "width", "height", "fps", "camera_id"},
                          camera_config_columns)
            ELSE Executes({"camera_id", "source", "name", "width", "height", "fps",
                           "enabled"}, camera_config_columns)
    IN  IF insert_cameras /\ select_config /\ write_config
        THEN [cameras |-> {r \in tbl : r.camera_id # camera_id}
                          \cup {[camera_id |-> camera_id, source |-> source]},
              ok |-> TRUE]
        ELSE [cameras |-> tbl, ok |-> FALSE]

\* list_cameras(): cameras LEFT JOIN camera_config
list_cameras(tbl, cfg) ==
    {[camera_id |-> c.camera_id, source |-> c.source,
      roi |-> get_camera_roi(cfg, c.camera_id)] : c \in tbl}

\* add_camera(camera_id, source, name) called by a thread; the with block is
\* one step
AddCamera(th, camera_id, source) ==
    /\ db_pc[th] = "idle"
    /\ db_lock = "free"
    /\ LET r == add_camera(cameras_table, camera_config, camera_id, source)
       IN  /\ cameras_table' = r.cameras
           /\ db_call' = [db_call EXCEPT
                              ![th] = [op |-> "add_camera", camera_id |-> camera_id,
                                       source |-> source, nested |-> FALSE,
                                       ok |-> r.ok, rows |-> {}]]
    /\ UNCHANGED <<db_lock, db_pc, camera_config, tableOther>>

\* list_cameras() called by a thread
ListCameras(th) ==
    /\ db_pc[th] = "idle"
    /\ db_lock = "free"
    /\ db_call' = [db_call EXCEPT
                      ![th] = [op |-> "list_cameras", camera_id |-> None,
                               source |-> None, nested |-> FALSE, ok |-> TRUE,
                               rows |-> list_cameras(cameras_table, camera_config)]]
    /\ UNCHANGED <<db_lock, db_pc, cameras_table, camera_config, tableOther>>

\* remove_camera(camera_id): with self.db_lock: entry
RemoveCameraAcquire(th, camera_id) ==
    /\ db_pc[th] = "idle"
    /\ db_lock = "free"
    /\ db_lock' = th
    /\ db_pc' = [db_pc EXCEPT ![th] = "remove_camera"]
    /\ db_call' = [db_call EXCEPT
                      ![th] = [op |-> "remove_camera", camera_id |-> camera_id,
                               source |-> None, nested |-> FALSE, ok |-> FALSE,
                               rows |-> {}]]
    /\ UNCHANGED <<cameras_table, camera_config, tableOther>>

\* remove_camera(camera_id): the cameras table exists, DELETE FROM cameras is
\* executed in the open transaction, then self.clear_roi(camera_id) is called
RemoveCameraDelete(th) ==
    /\ db_pc[th] = "remove_camera"
    /\ db_pc' = [db_pc EXCEPT ![th] = "delete_camera_roi"]
    /\ db_call' = [db_call EXCEPT ![th].nested = TRUE]
    /\ UNCHANGED <<db_lock, cameras_table, camera_config, tableOther>>

\* delete_camera_roi(camera_id) / clear_roi(camera_id) called by a thread
DeleteCameraRoiCall(th, camera_id) ==
    /\ db_pc[th] = "idle"
    /\ db_pc' = [db_pc EXCEPT ![th] = "delete_camera_roi"]
    /\ db_call' = [db_call EXCEPT
                      ![th] = [op |-> "delete_camera_roi", camera_id |-> camera_id,
                               source |-> None, nested |-> FALSE, ok |-> FALSE,
                               rows |-> {}]]
    /\ UNCHANGED <<db_lock, cameras_table, camera_config, tableOther>>

\* delete_camera_roi(camera_id): the with block, entered when db_lock is free;
\* called from remove_camera, the caller then commits its DELETE, leaves its
\* own with block and returns True
DeleteCameraRoi(th) ==
    /\ db_pc[th] = "delete_camera_roi"
    /\ db_lock = "free"
    /\ camera_config' = delete_camera_roi(camera_config, db_call[th].camera_id)
    /\ cameras_table' = IF db_call[th].nested
                        THEN {r \in cameras_table : r.camera_id # db_call[th].camera_id}
                        ELSE cameras_table
    /\ db_lock' = "free"
    /\ db_pc' = [db_pc EXCEPT ![th] = "idle"]
    /\ db_call' = [db_call EXCEPT ![th].ok = TRUE]
    /\ UNCHANGED tableOther

\* get_cameras(): the with block up to the loop over the rows of cameras; with
\* no row the empty list is returned, else get_camera_roi is called for the
\* first row while db_lock is held
GetCameras(th) ==
    /\ db_pc[th] = "idle"
    /\ db_lock = "free"
    /\ IF cameras_table = {}
       THEN /\ db_call' = [db_call EXCEPT
                               ![th] = [op |-> "get_cameras", camera_id |-> None,
                                        source |-> None, nested |-> FALSE,
                                        ok |-> TRUE, rows |-> {}]]
            /\ UNCHANGED <<db_lock, db_pc>>
       ELSE /\ db_lock' = th
            /\ db_pc' = [db_pc EXCEPT ![th] = "get_camera_roi"]
            /\ db_call' = [db_call EXCEPT
                               ![th] = [op |-> "get_cameras",
                                        camera_id |->
                                            (CHOOSE r \in cameras_table : TRUE).camera_id,
                                        source |-> None, nested |-> TRUE,
                                        ok |-> FALSE, rows |-> {}]]
    /\ UNCHANGED <<cameras_table, camera_config, tableOther>>

\* get_camera_roi(camera_id) called by a thread
GetCameraRoiCall(th, camera_id) ==
    /\ db_pc[th] = "idle"
    /\ db_pc' = [db_pc EXCEPT ![th] = "get_camera_roi"]
    /\ db_call' = [db_call EXCEPT
                      ![th] = [op |-> "get_camera_roi", camera_id |-> camera_id,
                               source |-> None, nested |-> FALSE, ok |-> FALSE,
                               rows |-> {}]]
    /\ UNCHANGED <<db_lock, cameras_table, camera_config, tableOther>>

\* get_camera_roi(camera_id): the with block, entered when db_lock is free;
\* called from get_cameras, the caller goes on with the other rows and
\* returns the list
GetCameraRoi(th) ==
    /\ db_pc[th] = "get_camera_roi"
    /\ db_lock = "free"
    /\ db_lock' = "free"
    /\ db_pc' = [db_pc EXCEPT ![th] = "idle"]
    /\ db_call' = [db_call EXCEPT
                      ![th].ok = TRUE,
                      ![th].rows =
                          IF db_call[th].nested
                          THEN list_cameras(cameras_table, camera_config)
                          ELSE {[camera_id |-> db_call[th].camera_id, source |-> None,
                                 roi |-> get_camera_roi(camera_config,
                                                        db_call[th].camera_id)]}]
    /\ UNCHANGED <<cameras_table, camera_config, tableOther>>

\* save_camera_roi(camera_id, roi, entry_dir) called by a thread
SaveCameraRoi(th, camera_id) ==
    /\ db_pc[th] = "idle"
    /\ db_lock = "free"
    /\ camera_config' = save_camera_roi(camera_config, camera_id,
                                        <<20, 20, 100, 100>>, <<"LTR">>)
    /\ db_call' = [db_call EXCEPT
                      ![th] = [op |-> "save_camera_roi", camera_id |-> camera_id,
                               source |-> None, nested |-> FALSE, ok |-> TRUE,
                               rows |-> {}]]
    /\ UNCHANGED <<db_lock, db_pc, cameras_table, tableOther>>

\* the threads that call the camera operations (request handlers) and the
\* thread that calls log_detection_event
TableThreads == {"dashboard"}

WriterThreads == {"detection-main"}

CameraTableNext ==
    \/ \E th \in TableThreads, c \in Cameras, src \in CameraSources : AddCamera(th, c, src)
    \/ \E th \in TableThreads : ListCameras(th)
    \/ \E th \in TableThreads, c \in Cameras : RemoveCameraAcquire(th, c)
    \/ \E th \in TableThreads : RemoveCameraDelete(th)
    \/ \E th \in TableThreads, c \in Cameras : DeleteCameraRoiCall(th, c)
    \/ \E th \in TableThreads : DeleteCameraRoi(th)
    \/ \E th \in TableThreads : GetCameras(th)
    \/ \E th \in TableThreads, c \in Cameras : GetCameraRoiCall(th, c)
    \/ \E th \in TableThreads : GetCameraRoi(th)
    \/ \E th \in TableThreads, c \in Cameras : SaveCameraRoi(th, c)
    \/ \E th \in WriterThreads : DbAcquire(th)
    \/ \E th \in WriterThreads : DbStamp(th)
    \/ \E th \in WriterThreads : DbInsert(th, "entry")
    \/ \E th \in WriterThreads : DbRelease(th)

SpecCameraTable == Init /\ [][CameraTableNext]_vars

\* ------------------------------------------------------------------------
\* SpecSource: one Frame Source (CameraManager), its capture threads, the
\* callers of start()/stop() and the readers of its frames
\* ------------------------------------------------------------------------

max_retries == 10

max_consecutive_failures == 50

max_reconnection_attempts == 15

\* queue.Queue(maxsize=1)
frame_queue_maxsize == 1

sourceOther == <<trackVars, roiVars, dbVars, workerVars, storageVars, classification, registry>>

Alive(p) == capture[p].pc \notin {"unborn", "dead"}

\* self.is_ip_camera
is_ip_camera == source_kind = "ip"

\* self.is_video_file
is_video_file == source_kind = "video"

\* calls in which a capture thread can stay longer than the 2 s that stop()
\* waits: acquiring initialization_lock, cap.read(), frame_queue.get(),
\* frame_queue.put()
BlockingCalls == {"lock", "read", "get", "put_blocking"}

\* start()
SourceStart ==
    /\ source_call = "idle"
    /\ initialization_lock = 0
    /\ \E p \in CaptureThreads :
          /\ capture[p].pc = "unborn"
          /\ \A q \in CaptureThreads : q < p => capture[q].pc # "unborn"
          /\ IF cam_is_running
             THEN UNCHANGED <<cam_is_running, reconnection_attempts, cam_thread, capture,
                              open_failures>>
             ELSE /\ cam_is_running' = TRUE
                  /\ reconnection_attempts' = 0
                  /\ open_failures' = 0
                  /\ cam_thread' = p
                  /\ capture' = [capture EXCEPT ![p].pc = "loop"]
    /\ UNCHANGED <<cam_is_initialized, initialization_lock, frame_queue, latest_frame,
                   source_call, last_read, source_kind, sourceOther>>

\* stop(): takes the lock, clears is_running and starts joining the thread
SourceStopBegin ==
    /\ source_call = "idle"
    /\ initialization_lock = 0
    /\ initialization_lock' = Caller
    /\ cam_is_running' = FALSE
    /\ source_call' = "joining"
    /\ UNCHANGED <<cam_thread, cam_is_initialized, reconnection_attempts, frame_queue,
                   latest_frame, capture, last_read, open_failures, source_kind,
                   sourceOther>>

\* stop(): the joins are over (the thread ended, or 4 x 0.5 s elapsed), the
\* reference is dropped and the lock released
SourceStopEnd ==
    /\ source_call = "joining"
    /\ IF cam_thread = 0
       THEN TRUE
       ELSE ~Alive(cam_thread) \/ capture[cam_thread].pc \in BlockingCalls
    /\ cam_thread' = 0
    /\ cam_is_initialized' = FALSE
    /\ initialization_lock' = 0
    /\ source_call' = "idle"
    /\ UNCHANGED <<cam_is_running, reconnection_attempts, frame_queue, latest_frame,
                   capture, last_read, open_failures, source_kind, sourceOther>>

\* _capture_loop: the outer while test and the re-check of is_running
CaptureLoopTest(p) ==
    /\ capture[p].pc = "loop"
    /\ capture' = [capture EXCEPT ![p].pc =
                      IF /\ cam_is_running
                         /\ capture[p].retry_count < max_retries
                         /\ ~capture[p].video_finished
                      THEN "lock" ELSE "finally"]
    /\ UNCHANGED <<cam_is_running, cam_thread, cam_is_initialized, reconnection_attempts,
                   initialization_lock, frame_queue, latest_frame, source_call,
                   last_read, open_failures, source_kind, sourceOther>>

\* with self.initialization_lock: entry
CaptureLock(p) ==
    /\ capture[p].pc = "lock"
    /\ initialization_lock = 0
    /\ initialization_lock' = p
    /\ capture' = [capture EXCEPT ![p].pc = "open"]
    /\ UNCHANGED <<cam_is_running, cam_thread, cam_is_initialized, reconnection_attempts,
                   frame_queue, latest_frame, source_call, last_read, open_failures,
                   source_kind, sourceOther>>

\* the body under the lock: cv2.VideoCapture(device_id) if cap is None and
\* is_running; opened tells whether the device opened. The warm-up period
\* starts with every open of a source that is not a video file.
CaptureOpen(p, opened) ==
    /\ capture[p].pc = "open"
    /\ IF capture[p].cap = "none" /\ cam_is_running
       THEN /\ capture' = [capture EXCEPT
                             ![p].pc = "opened",
                             ![p].cap = IF opened THEN "open" ELSE "failed",
                             ![p].in_warmup_period = IF is_video_file THEN @ ELSE TRUE]
            /\ cam_is_initialized' = opened
            /\ open_failures' = IF opened THEN open_failures ELSE open_failures + 1
       ELSE /\ capture' = [capture EXCEPT ![p].pc = "opened"]
            /\ UNCHANGED <<cam_is_initialized, open_failures>>
    /\ initialization_lock' = 0
    /\ UNCHANGED <<cam_is_running, cam_thread, reconnection_attempts, frame_queue,
                   latest_frame, source_call, last_read, source_kind, sourceOther>>

\* if not cap.isOpened(): ... ; on a cap that is None the call raises and the
\* outer except counts a retry
CaptureCheck(p) ==
    /\ capture[p].pc = "opened"
    /\ CASE capture[p].cap = "open" ->
              /\ capture' = [capture EXCEPT ![p].pc = "stream", ![p].retry_count = 0,
                                            ![p].consecutive_failures = 0]
              /\ UNCHANGED reconnection_attempts
         [] capture[p].cap = "none" ->
              /\ capture' = [capture EXCEPT ![p].pc = "loop", ![p].retry_count = @ + 1]
              /\ UNCHANGED reconnection_attempts
         [] capture[p].cap = "failed" ->
              /\ reconnection_attempts' = reconnection_attempts + 1
              /\ capture' = IF reconnection_attempts + 1 >= max_reconnection_attempts
                            THEN [capture EXCEPT ![p].pc = "finally",
                                                 ![p].video_finished = TRUE]
                            ELSE [capture EXCEPT ![p].pc = "loop", ![p].cap = "none",
                                                 ![p].retry_count = @ + 1]
    /\ UNCHANGED <<cam_is_running, cam_thread, cam_is_initialized, initialization_lock,
                   frame_queue, latest_frame, source_call, last_read, open_failures,
                   source_kind, sourceOther>>

\* while self.is_running: (the inner loop test) and the test of the warm-up
\* clock; elapsed tells whether more than warmup_period has passed
CaptureStreamTest(p, elapsed) ==
    /\ capture[p].pc = "stream"
    /\ capture' = IF cam_is_running
                  THEN [capture EXCEPT ![p].pc = "read",
                                       ![p].in_warmup_period = @ /\ ~elapsed]
                  ELSE [capture EXCEPT ![p].pc = "loop"]
    /\ UNCHANGED <<cam_is_running, cam_thread, cam_is_initialized, reconnection_attempts,
                   initialization_lock, frame_queue, latest_frame, source_call,
                   last_read, open_failures, source_kind, sourceOther>>

\* the consecutive_failures count after a read that returned no frame
CountFailure(r) == IF r.in_warmup_period THEN 0 ELSE r.consecutive_failures + 1

\* AfterRead with the reconnection at max_consecutive_failures failed reads
\* instead of one more
AfterRead_AtThreshold(r, ret, reopened) ==
    CASE ret ->
           [r EXCEPT !.pc = "latest", !.consecutive_failures = 0]
      [] ~ret /\ is_video_file /\ reopened ->
           [r EXCEPT !.pc = IF cam_is_running THEN "stream" ELSE "loop",
                     !.consecutive_failures = 0]
      [] ~ret /\ is_video_file /\ ~reopened ->
           [r EXCEPT !.pc = "finally", !.cap = "failed", !.video_finished = TRUE,
                     !.consecutive_failures = CountFailure(r)]
      [] ~ret /\ ~is_video_file
              /\ (is_ip_camera \/ (~r.in_warmup_period
                                   /\ CountFailure(r) >= max_consecutive_failures)) ->
           [r EXCEPT !.pc = "loop", !.cap = "none",
                     !.consecutive_failures = CountFailure(r)]
      [] OTHER ->
           [r EXCEPT !.pc = IF cam_is_running THEN "stream" ELSE "loop",
                     !.consecutive_failures = CountFailure(r)]

\* the locals of the capture thread after ret, frame = cap.read(): ret tells
\* whether a frame came, reopened whether a video file opens again
AfterRead(r, ret, reopened) ==
    CASE ret ->
           [r EXCEPT !.pc = "latest", !.consecutive_failures = 0]
      [] ~ret /\ is_video_file /\ reopened ->
           [r EXCEPT !.pc = IF cam_is_running THEN "stream" ELSE "loop",
                     !.consecutive_failures = 0]
      [] ~ret /\ is_video_file /\ ~reopened ->
           [r EXCEPT !.pc = "finally", !.cap = "failed", !.video_finished = TRUE,
                     !.consecutive_failures = CountFailure(r)]
      [] ~ret /\ ~is_video_file
              /\ (is_ip_camera \/ (~r.in_warmup_period
                                   /\ CountFailure(r) > max_consecutive_failures)) ->
           [r EXCEPT !.pc = "loop", !.cap = "none",
                     !.consecutive_failures = CountFailure(r)]
      [] OTHER ->
           [r EXCEPT !.pc = IF cam_is_running THEN "stream" ELSE "loop",
                     !.consecutive_failures = CountFailure(r)]

\* CaptureRead with the end of a video file counted as a failed read
CaptureRead_CountEos(p, ret, reopened) ==
    /\ capture[p].pc = "read"
    /\ capture' = [capture EXCEPT ![p] =
                      [AfterRead(capture[p], ret, reopened) EXCEPT
                         !.consecutive_failures =
                            IF ret THEN 0 ELSE CountFailure(capture[p])]]
    /\ UNCHANGED <<cam_is_running, cam_thread, cam_is_initialized, reconnection_attempts,
                   initialization_lock, frame_queue, latest_frame, source_call,
                   last_read, open_failures, source_kind, sourceOther>>

\* ret, frame = cap.read() and the handling of a read without a frame
CaptureRead(p, ret, reopened) ==
    /\ capture[p].pc = "read"
    /\ capture' = [capture EXCEPT ![p] = AfterRead(capture[p], ret, reopened)]
    /\ UNCHANGED <<cam_is_running, cam_thread, cam_is_initialized, reconnection_attempts,
                   initialization_lock, frame_queue, latest_frame, source_call,
                   last_read, open_failures, source_kind, sourceOther>>

\* with self.frame_lock: self.latest_frame = frame.copy()
CaptureLatest(p) ==
    /\ capture[p].pc = "latest"
    /\ latest_frame' = p
    /\ capture' = [capture EXCEPT ![p].pc = "put"]
    /\ UNCHANGED <<cam_is_running, cam_thread, cam_is_initialized, reconnection_attempts,
                   initialization_lock, frame_queue, source_call, last_read,
                   open_failures, source_kind, sourceOther>>

\* self.frame_queue.put(frame, block=False), queue.Full caught
CapturePut(p) ==
    /\ capture[p].pc = "put"
    /\ IF Len(frame_queue) < frame_queue_maxsize
       THEN /\ frame_queue' = Append(frame_queue, p)
            /\ capture' = [capture EXCEPT ![p].pc = "stream"]
       ELSE /\ capture' = [capture EXCEPT ![p].pc = "get"]
            /\ UNCHANGED frame_queue
    /\ UNCHANGED <<cam_is_running, cam_thread, cam_is_initialized, reconnection_attempts,
                   initialization_lock, latest_frame, source_call, last_read,
                   open_failures, source_kind, sourceOther>>

\* _ = self.frame_queue.get(): waits until the queue holds a frame
CaptureGet(p) ==
    /\ capture[p].pc = "get"
    /\ frame_queue # <<>>
    /\ frame_queue' = Tail(frame_queue)
    /\ capture' = [capture EXCEPT ![p].pc = "put_blocking"]
    /\ UNCHANGED <<cam_is_running, cam_thread, cam_is_initialized, reconnection_attempts,
                   initialization_lock, latest_frame, source_call, last_read,
                   open_failures, source_kind, sourceOther>>

\* self.frame_queue.put(frame): waits until the queue has room
CapturePutBlocking(p) ==
    /\ capture[p].pc = "put_blocking"
    /\ Len(frame_queue) < frame_queue_maxsize
    /\ frame_queue' = Append(frame_queue, p)
    /\ capture' = [capture EXCEPT ![p].pc = "stream"]
    /\ UNCHANGED <<cam_is_running, cam_thread, cam_is_initialized, reconnection_attempts,
                   initialization_lock, latest_frame, source_call, last_read,
                   open_failures, source_kind, sourceOther>>

\* finally: cap.release(); self.is_initialized = False; the thread ends
CaptureFinally(p) ==
    /\ capture[p].pc = "finally"
    /\ cam_is_initialized' = FALSE
    /\ capture' = [capture EXCEPT ![p].pc = "dead", ![p].cap = "none"]
    /\ UNCHANGED <<cam_is_running, cam_thread, reconnection_attempts,
                   initialization_lock, frame_queue, latest_frame, source_call,
                   last_read, open_failures, source_kind, sourceOther>>

\* get_frame() with its defaults block=False, timeout=None
GetFrame ==
    /\ IF frame_queue # <<>>
       THEN /\ last_read' = Head(frame_queue)
            /\ frame_queue' = Tail(frame_queue)
       ELSE /\ last_read' = 0
            /\ UNCHANGED frame_queue
    /\ UNCHANGED <<cam_is_running, cam_thread, cam_is_initialized, reconnection_attempts,
                   initialization_lock, latest_frame, capture, source_call,
                   open_failures, source_kind, sourceOther>>

\* get_latest_frame()
GetLatestFrame ==
    /\ last_read' = latest_frame
    /\ UNCHANGED <<cam_is_running, cam_thread, cam_is_initialized, reconnection_attempts,
                   initialization_lock, frame_queue, latest_frame, capture, source_call,
                   open_failures, source_kind, sourceOther>>

\* CameraManager.is_camera_active()
is_camera_active == cam_is_running /\ cam_is_initialized

\* the "status" of the camera in the answer of GET /api/cameras
ListedStatus == IF cam_is_running THEN "active" ELSE "inactive"

\* SpecSource follows every interleaving of two capture threads, the callers
\* and the readers, with few failed opens and few counted read failures
SourceNext ==
    \/ SourceStart
    \/ SourceStopBegin
    \/ SourceStopEnd
    \/ \E p \in CaptureThreads : CaptureLoopTest(p)
    \/ \E p \in CaptureThreads : CaptureLock(p)
    \/ \E p \in CaptureThreads, opened \in BOOLEAN :
          /\ opened \/ open_failures < MaxOpenFailures
          /\ CaptureOpen(p, opened)
    \/ \E p \in CaptureThreads : CaptureCheck(p)
    \/ \E p \in CaptureThreads, elapsed \in BOOLEAN : CaptureStreamTest(p, elapsed)
    \/ \E p \in CaptureThreads, ret \in BOOLEAN, reopened \in BOOLEAN :
          /\ ret \/ capture[p].consecutive_failures < MaxReadFailures
          /\ CaptureRead(p, ret, reopened)
    \/ \E p \in CaptureThreads : CaptureLatest(p)
    \/ \E p \in CaptureThreads : CapturePut(p)
    \/ \E p \in CaptureThreads : CaptureGet(p)
    \/ \E p \in CaptureThreads : CapturePutBlocking(p)
    \/ \E p \in CaptureThreads : CaptureFinally(p)
    \/ GetFrame
    \/ GetLatestFrame

SpecSource == InitSource /\ [][SourceNext]_vars

\* a step of capture thread p, as SourceNext allows it
CaptureStep(p) ==
    \/ CaptureLoopTest(p)
    \/ CaptureLock(p)
    \/ \E opened \in BOOLEAN :
          /\ opened \/ open_failures < MaxOpenFailures
          /\ CaptureOpen(p, opened)
    \/ CaptureCheck(p)
    \/ \E elapsed \in BOOLEAN : CaptureStreamTest(p, elapsed)
    \/ \E ret \in BOOLEAN, reopened \in BOOLEAN :
          /\ ret \/ capture[p].consecutive_failures < MaxReadFailures
          /\ CaptureRead(p, ret, reopened)
    \/ CaptureLatest(p)
    \/ CapturePut(p)
    \/ CaptureGet(p)
    \/ CapturePutBlocking(p)
    \/ CaptureFinally(p)

\* the scheduler runs every thread that can run: a capture thread whose next
\* call can return takes its step, also when the lock it waits for is only
\* free from time to time, and a stop() that is joining comes back
SpecSourceFair ==
    /\ SpecSource
    /\ \A p \in CaptureThreads : SF_vars(CaptureStep(p))
    /\ WF_vars(SourceStopEnd)

\* SpecReconnect follows one run of the source, from its first start() on,
\* through every count of failed opens and failed reads that max_retries,
\* max_reconnection_attempts and max_consecutive_failures allow; stop() may
\* come at any time and nobody reads the frames
ReconnectNext ==
    \/ /\ \A p \in CaptureThreads : capture[p].pc = "unborn"
       /\ SourceStart
    \/ SourceStopBegin
    \/ SourceStopEnd
    \/ \E p \in CaptureThreads : CaptureLoopTest(p)
    \/ \E p \in CaptureThreads : CaptureLock(p)
    \/ \E p \in CaptureThreads, opened \in BOOLEAN : CaptureOpen(p, opened)
    \/ \E p \in CaptureThreads : CaptureCheck(p)
    \/ \E p \in CaptureThreads, elapsed \in BOOLEAN : CaptureStreamTest(p, elapsed)
    \/ \E p \in CaptureThreads, ret \in BOOLEAN, reopened \in BOOLEAN :
          CaptureRead(p, ret, reopened)
    \/ \E p \in CaptureThreads : CaptureLatest(p)
    \/ \E p \in CaptureThreads : CapturePut(p)
    \/ \E p \in CaptureThreads : CaptureGet(p)
    \/ \E p \in CaptureThreads : CapturePutBlocking(p)
    \/ \E p \in CaptureThreads : CaptureFinally(p)

SpecReconnect == InitSource /\ [][ReconnectNext]_vars

\* ------------------------------------------------------------------------
\* SpecRegistry: the CameraRegistry with its camera "main".  The source
\* variables describe the CameraManager installed by the constructor
\* (registry.camera = 1); a CameraManager created later (registry.camera = 2)
\* is only recorded.  registry.pc is the position of the call that holds
\* the registry lock, registry.op, registry.arg and registry.same describe
\* the last call, registry.ret its return value.
\* ------------------------------------------------------------------------

\* add_camera that always takes a camera_id it knows for a replacement
AddCameraBegin_NoCompare(source, connects) ==
    /\ registry.pc = "idle"
    /\ LET is_replacement == registry.camera # 0
           call == [registry EXCEPT !.op = "add_camera", !.arg = source,
                                    !.same = is_replacement /\ source = registry.source]
       IN  registry' =
             CASE is_replacement /\ registry.camera = 1 /\ cam_is_running ->
                    [call EXCEPT !.pc = "replacing"]
               [] ~is_replacement /\ ~connects ->
                    [call EXCEPT !.ret = FALSE]
               [] OTHER ->
                    [call EXCEPT !.camera = 2, !.source = source, !.ret = TRUE]
    /\ UNCHANGED <<trackVars, roiVars, dbVars, sourceVars, workerVars, storageVars,
                   classification>>

\* add_camera(camera_id, source) on the initialized registry, up to its
\* return or to the old_camera.stop() of a replacement; connects is the
\* result of _test_camera_connection.  The camera.start() of a CameraManager
\* created here is part of the step.
AddCameraBegin(source, connects) ==
    /\ registry.pc = "idle"
    /\ LET is_replacement == registry.camera # 0
           same == is_replacement /\ source = registry.source
           call == [registry EXCEPT !.op = "add_camera", !.arg = source, !.same = same]
       IN  registry' =
             CASE same ->
                    [call EXCEPT !.ret = TRUE]
               [] is_replacement /\ ~same /\ registry.camera = 1 /\ cam_is_running ->
                    [call EXCEPT !.pc = "replacing"]
               [] ~is_replacement /\ ~connects ->
                    [call EXCEPT !.ret = FALSE]
               [] OTHER ->
                    [call EXCEPT !.camera = 2, !.source = source, !.ret = TRUE]
    /\ UNCHANGED <<trackVars, roiVars, dbVars, sourceVars, workerVars, storageVars,
                   classification>>

\* add_camera after old_camera.stop(): the new CameraManager is installed
\* and started
AddCameraInstall ==
    /\ registry.pc = "replacing"
    /\ ~cam_is_running
    /\ source_call = "idle"
    /\ registry' = [registry EXCEPT !.pc = "idle", !.camera = 2, !.source = registry.arg,
                                    !.ret = TRUE]
    /\ UNCHANGED <<trackVars, roiVars, dbVars, sourceVars, workerVars, storageVars,
                   classification>>

\* the add_camera("main", device_id) of the constructor returns after
\* camera.start()
AddCameraReturn ==
    /\ registry.pc = "starting"
    /\ cam_is_running
    /\ registry' = [registry EXCEPT !.pc = "idle", !.ret = TRUE]
    /\ UNCHANGED <<trackVars, roiVars, dbVars, sourceVars, workerVars, storageVars,
                   classification>>

\* remove_camera(camera_id) up to its return or to its camera.stop()
RemoveCameraBegin ==
    /\ registry.pc = "idle"
    /\ LET call == [registry EXCEPT !.op = "remove_camera", !.arg = None, !.same = FALSE]
       IN  registry' =
             CASE registry.camera = 0 ->
                    [call EXCEPT !.ret = FALSE]
               [] registry.camera = 1 /\ cam_is_running ->
                    [call EXCEPT !.pc = "removing"]
               [] OTHER ->
                    [call EXCEPT !.camera = 0, !.ret = TRUE]
    /\ UNCHANGED <<trackVars, roiVars, dbVars, sourceVars, workerVars, storageVars,
                   classification>>

\* remove_camera after camera.stop(): del self.cameras[camera_id]
RemoveCameraEnd ==
    /\ registry.pc = "removing"
    /\ ~cam_is_running
    /\ source_call = "idle"
    /\ registry' = [registry EXCEPT !.pc = "idle", !.camera = 0, !.ret = TRUE]
    /\ UNCHANGED <<trackVars, roiVars, dbVars, sourceVars, workerVars, storageVars,
                   classification>>

\* the registry calls, the capture thread of the first CameraManager and the
\* readers that hold it (video feeds, detection workers)
RegistryNext ==
    \/ /\ registry.pc = "starting"
       /\ SourceStart
    \/ AddCameraReturn
    \/ \E source \in {"0", "rtsp://cam"}, connects \in BOOLEAN :
          AddCameraBegin(source, connects)
    \/ AddCameraInstall
    \/ RemoveCameraBegin
    \/ RemoveCameraEnd
    \/ /\ registry.pc \in {"replacing", "removing"}
       /\ cam_is_running
       /\ SourceStopBegin
    \/ SourceStopEnd
    \/ \E p \in CaptureThreads : CaptureStep(p)
    \/ GetFrame
    \/ GetLatestFrame

SpecRegistry == Init /\ [][RegistryNext]_vars

\* ------------------------------------------------------------------------
\* SpecWorkers: the detection threads of the DetectionManager and the calls
\* start_all, start_camera, stop_all, stop_camera
\* ------------------------------------------------------------------------

workerOther == <<roiVars, dbVars, sourceVars, storageVars, classification, registry,
                shutdown>>

\* threading.Thread.is_alive()
is_alive(workers, t) == workers[t].pc \notin {"unborn", "dead"}

\* where a detection thread can stay longer than the 1 s of join(timeout=1.0):
\* inside _process_frame (the model inference)
SlowCalls == {"frame"}

\* join(timeout=1.0) has returned: the thread ended or the second elapsed
Joined(t) == t = 0 \/ ~is_alive(detection_worker, t) \/ detection_worker[t].pc \in SlowCalls

UnbornThreads(workers) == {t \in DetectionThreads : workers[t].pc = "unborn"}

\* start_camera(camera_id) on the dictionaries st.threads, st.workers, st.running
start_camera(st, camera_id) ==
    LET started == [st EXCEPT !.running[camera_id] = TRUE]
        t == st.threads[camera_id]
    IN  IF t # 0 /\ is_alive(st.workers, t)
        THEN started
        ELSE LET new == CHOOSE n \in UnbornThreads(st.workers) :
                            \A m \in UnbornThreads(st.workers) : n <= m
             IN  [started EXCEPT !.threads[camera_id] = new,
                                 !.workers[new] = [camera |-> camera_id, pc |-> "loop"]]

\* for camera_id, camera in cameras.items(): self.start_camera(camera_id)
RECURSIVE start_cameras(_, _)
start_cameras(st, cams) ==
    IF cams = {} THEN st
    ELSE LET c == CHOOSE x \in cams : \A y \in cams : (x = "main") \/ (y # "main")
         IN  start_cameras(start_camera(st, c), cams \ {c})

ManagerState == [threads |-> detection_threads, workers |-> detection_worker,
                 running |-> camera_is_running]

\* threads that a call starting the cameras cams will create
Needed(cams) ==
    Cardinality({c \in cams : ~(detection_threads[c] # 0
                                /\ is_alive(detection_worker, detection_threads[c]))})

\* camera_registry.start_all_cameras() / camera.start() for one camera
CameraUp(c) ==
    /\ ~camera_is_running[c]
    /\ camera_is_running' = [camera_is_running EXCEPT ![c] = TRUE]
    /\ UNCHANGED <<is_running, detection_threads, stop_detection, detection_worker,
                   manager_call, last_return, trackVars, workerOther>>

\* camera.stop() for one camera
CameraDown(c) ==
    /\ camera_is_running[c]
    /\ camera_is_running' = [camera_is_running EXCEPT ![c] = FALSE]
    /\ UNCHANGED <<is_running, detection_threads, stop_detection, detection_worker,
                   manager_call, last_return, trackVars, workerOther>>

\* start_all()
StartAll ==
    /\ manager_call = Idle
    /\ LET cameras == {c \in Cameras : camera_is_running[c]}
       IN  IF is_running
           THEN UNCHANGED <<is_running, detection_threads, detection_worker,
                            camera_is_running>>
           ELSE /\ Needed(cameras) <= Cardinality(UnbornThreads(detection_worker))
                /\ is_running' = TRUE
                /\ LET st == start_cameras(ManagerState, cameras)
                   IN  /\ detection_threads' = st.threads
                       /\ detection_worker' = st.workers
                       /\ camera_is_running' = st.running
    /\ last_return' = [op |-> "start_all", camera |-> None]
    /\ UNCHANGED <<stop_detection, manager_call, trackVars, workerOther>>

\* start_camera(camera_id) called on its own
StartCamera(c) ==
    /\ manager_call = Idle
    /\ Needed({c}) <= Cardinality(UnbornThreads(detection_worker))
    /\ LET st == start_camera(ManagerState, c)
       IN  /\ detection_threads' = st.threads
           /\ detection_worker' = st.workers
           /\ camera_is_running' = st.running
    /\ last_return' = [op |-> "start_camera", camera |-> c]
    /\ UNCHANGED <<is_running, stop_detection, manager_call, trackVars, workerOther>>

\* stop_all(): is_running = False, then the loop over the threads begins
StopAllBegin ==
    /\ manager_call = Idle
    /\ is_running' = FALSE
    /\ manager_call' = [op |-> "stop_all", camera |-> None,
                        pending |-> {c \in Cameras : detection_threads[c] # 0}]
    /\ last_return' = [op |-> "none", camera |-> None]
    /\ UNCHANGED <<detection_threads, camera_is_running, stop_detection,
                   detection_worker, trackVars, workerOther>>

\* stop_all(): one round of the loop: join(timeout=1.0), reset of the state
StopAllJoin(c) ==
    /\ manager_call.op = "stop_all"
    /\ c \in manager_call.pending
    /\ Joined(detection_threads[c])
    /\ states' = [states EXCEPT ![c] = InitialState]
    /\ manager_call' = [manager_call EXCEPT !.pending = @ \ {c}]
    /\ UNCHANGED <<is_running, detection_threads, camera_is_running, stop_detection,
                   detection_worker, last_return, workerOther>>
    /\ UNCHANGED <<track_states, last_frame, empty_run, detection_events,
                   snapshot_files, emitted, footfalls, last_status, now>>

\* stop_all(): detection_threads.clear() and return
StopAllEnd ==
    /\ manager_call.op = "stop_all"
    /\ manager_call.pending = {}
    /\ detection_threads' = [c \in Cameras |-> 0]
    /\ manager_call' = Idle
    /\ last_return' = [op |-> "stop_all", camera |-> None]
    /\ UNCHANGED <<is_running, camera_is_running, stop_detection, detection_worker,
                   trackVars, workerOther>>

\* stop_camera(camera_id): return if no thread is recorded, else set the flag
StopCameraBegin(c) ==
    /\ manager_call = Idle
    /\ IF detection_threads[c] = 0
       THEN /\ last_return' = [op |-> "stop_camera", camera |-> c]
            /\ UNCHANGED <<stop_detection, manager_call>>
       ELSE /\ stop_detection' = [stop_detection EXCEPT ![c] = TRUE]
            /\ manager_call' = [op |-> "stop_camera", camera |-> c, pending |-> {}]
            /\ last_return' = [op |-> "none", camera |-> None]
    /\ UNCHANGED <<is_running, detection_threads, camera_is_running, detection_worker,
                   trackVars, workerOther>>

\* stop_camera(camera_id): join(timeout=1.0) is over; reset, del, clear the flag
StopCameraEnd(c) ==
    /\ manager_call.op = "stop_camera"
    /\ manager_call.camera = c
    /\ Joined(detection_threads[c])
    /\ states' = [states EXCEPT ![c] = InitialState]
    /\ detection_threads' = [detection_threads EXCEPT ![c] = 0]
    /\ stop_detection' = [stop_detection EXCEPT ![c] = FALSE]
    /\ manager_call' = Idle
    /\ last_return' = [op |-> "stop_camera", camera |-> c]
    /\ UNCHANGED <<is_running, camera_is_running, detection_worker, workerOther>>
    /\ UNCHANGED <<track_states, last_frame, empty_run, detection_events,
                   snapshot_files, emitted, footfalls, last_status, now>>

\* _run_detection_for_camera: the while test, then get_latest_frame()
WorkerLoopTest(t) ==
    /\ detection_worker[t].pc = "loop"
    /\ LET c == detection_worker[t].camera
       IN  detection_worker' = [detection_worker EXCEPT ![t].pc =
              IF is_running /\ camera_is_running[c] /\ ~stop_detection[c]
              THEN "frame" ELSE "dead"]
    /\ UNCHANGED <<is_running, detection_threads, camera_is_running, stop_detection,
                   manager_call, last_return, trackVars, workerOther>>

\* a detection thread that ends when _process_frame raises
WorkerProcess_Uncaught(t, boxes, io) ==
    /\ detection_worker[t].pc = "frame"
    /\ now < MaxWorkerTime
    /\ now' = now + 1
    /\ ProcessFrame(detection_worker[t].camera, boxes, now + 1, io)
    /\ detection_worker' = [detection_worker EXCEPT ![t].pc =
           IF last_frame'[detection_worker[t].camera].raised THEN "dead" ELSE "loop"]
    /\ UNCHANGED <<is_running, detection_threads, camera_is_running, stop_detection,
                   manager_call, last_return, workerOther>>

\* _run_detection_for_camera: self._process_frame(frame, camera_id) inside the
\* try of the loop; an exception is logged by the except clause and the loop
\* goes on
WorkerProcess(t, boxes, io) ==
    /\ detection_worker[t].pc = "frame"
    /\ now < MaxWorkerTime
    /\ now' = now + 1
    /\ ProcessFrame(detection_worker[t].camera, boxes, now + 1, io)
    /\ detection_worker' = [detection_worker EXCEPT ![t].pc = "loop"]
    /\ UNCHANGED <<is_running, detection_threads, camera_is_running, stop_detection,
                   manager_call, last_return, workerOther>>

\* _run_detection_for_camera: model.track raises inside _process_frame, before
\* any state is touched; the except clause logs, sleeps and the loop goes on
WorkerTrackRaises(t) ==
    /\ detection_worker[t].pc = "frame"
    /\ detection_worker' = [detection_worker EXCEPT ![t].pc = "loop"]
    /\ UNCHANGED <<is_running, detection_threads, camera_is_running, stop_detection,
                   manager_call, last_return, trackVars, workerOther>>

WorkerFrames == {<<>>, <<Box(1, <<60, 100>>)>>, <<Box(1, <<-10, 100>>)>>}

WorkersNext ==
    \/ \E c \in Cameras : CameraUp(c)
    \/ \E c \in Cameras : CameraDown(c)
    \/ StartAll
    \/ \E c \in Cameras : StartCamera(c)
    \/ StopAllBegin
    \/ \E c \in Cameras : StopAllJoin(c)
    \/ StopAllEnd
    \/ \E c \in Cameras : StopCameraBegin(c)
    \/ \E c \in Cameras : StopCameraEnd(c)
    \/ \E t \in DetectionThreads : WorkerLoopTest(t)
    \/ \E t \in DetectionThreads, boxes \in WorkerFrames : WorkerProcess(t, boxes, Healthy)

SpecWorkers == Init /\ [][WorkersNext]_vars

\* ------------------------------------------------------------------------
\* SpecShutdown: SIGINT or SIGTERM arrives while the detection threads run;
\* ZVision.shutdown calls detection_manager.stop_all(),
\* camera_registry.stop_all_cameras() and db_manager.close(), each in a try
\* block of its own
\* ------------------------------------------------------------------------

shutdownOther == <<roiVars, dbVars, sourceVars, storageVars, classification, registry,
                   trackVars>>

\* _signal_handler(sig, frame): self.shutdown() is entered
SignalHandler ==
    /\ shutdown.pc = "running"
    /\ shutdown' = [shutdown EXCEPT !.pc = "stop_all"]
    /\ UNCHANGED <<is_running, detection_threads, camera_is_running, stop_detection,
                   detection_worker, manager_call, last_return, shutdownOther>>

\* shutdown: detection_manager.stop_all() has returned, or has raised before
\* it did anything; the except clause logs the error
ShutdownStopAllDone(raised) ==
    /\ shutdown.pc = "stop_all"
    /\ manager_call = Idle
    /\ raised <=> last_return.op # "stop_all"
    /\ shutdown' = [pc |-> "stop_all_cameras",
                    log |-> Append(shutdown.log, [step |-> "stop_all", ok |-> ~raised])]
    /\ UNCHANGED <<is_running, detection_threads, camera_is_running, stop_detection,
                   detection_worker, manager_call, last_return, shutdownOther>>

\* shutdown: camera_registry.stop_all_cameras() stops every running camera, or
\* raises
ShutdownStopCameras(raised) ==
    /\ shutdown.pc = "stop_all_cameras"
    /\ camera_is_running' = IF raised THEN camera_is_running
                            ELSE [c \in Cameras |-> FALSE]
    /\ shutdown' = [pc |-> "close",
                    log |-> Append(shutdown.log,
                                   [step |-> "stop_all_cameras", ok |-> ~raised])]
    /\ UNCHANGED <<is_running, detection_threads, stop_detection, detection_worker,
                   manager_call, last_return, shutdownOther>>

\* shutdown: db_manager.close(), a placeholder that logs, or raises
ShutdownClose(raised) ==
    /\ shutdown.pc = "close"
    /\ shutdown' = [pc |-> "done",
                    log |-> Append(shutdown.log, [step |-> "close", ok |-> ~raised])]
    /\ UNCHANGED <<is_running, detection_threads, camera_is_running, stop_detection,
                   detection_worker, manager_call, last_return, shutdownOther>>

ShutdownNext ==
    \/ /\ shutdown.pc = "running"
       /\ \E c \in Cameras : CameraUp(c)
    \/ /\ shutdown.pc = "running"
       /\ StartAll
    \/ SignalHandler
    \/ /\ shutdown.pc = "stop_all"
       /\ last_return.op # "stop_all"
       /\ StopAllBegin
    \/ \E c \in Cameras : StopAllJoin(c)
    \/ StopAllEnd
    \/ \E raised \in BOOLEAN : ShutdownStopAllDone(raised)
    \/ \E raised \in BOOLEAN : ShutdownStopCameras(raised)
    \/ \E raised \in BOOLEAN : ShutdownClose(raised)
    \/ \E t \in DetectionThreads : WorkerLoopTest(t)
    \/ \E t \in DetectionThreads, boxes \in WorkerFrames :
           WorkerProcess(t, boxes, Healthy)

SpecShutdown == Init /\ [][ShutdownNext]_vars

\* ------------------------------------------------------------------------
\* SpecWorkerFaults: the detection threads run while the model, the snapshot
\* directory and the event store fail
\* ------------------------------------------------------------------------
\* what can go wrong during one frame: nothing, the snapshot of a new Track
\* raises, the INSERT of an event fails
WorkerIo == {Healthy, [db_ok |-> TRUE, snapshot |-> "raises"],
             [db_ok |-> FALSE, snapshot |-> "written"]}

\* a person with a tracker id, inside the image
WorkerFaultFrames == FramesOf({Box(id, <<60, 100>>) : id \in TrackIds})

WorkerFaultsNext ==
    \/ \E c \in Cameras : CameraUp(c)
    \/ \E c \in Cameras : CameraDown(c)
    \/ StartAll
    \/ StopAllBegin
    \/ \E c \in Cameras : StopAllJoin(c)
    \/ StopAllEnd
    \/ \E t \in DetectionThreads : WorkerLoopTest(t)
    \/ \E t \in DetectionThreads, boxes \in WorkerFaultFrames, io \in WorkerIo :
           WorkerProcess(t, boxes, io)
    \/ \E t \in DetectionThreads : WorkerTrackRaises(t)

SpecWorkerFaults == Init /\ [][WorkerFaultsNext]_vars

\* ------------------------------------------------------------------------
\* SpecStorage: the snapshot directory, the writers of snapshot files and the
\* periodic enforce_fifo sweep of the SnapshotStorageManager
\* ------------------------------------------------------------------------

storageOther == <<track_states, states, last_frame, empty_run, detection_events,
                  snapshot_files, emitted, footfalls, last_status, roiVars, dbVars,
                  sourceVars,
                  workerVars, classification, registry>>

\* a *.jpg file: its name and its modification time
SnapshotFile(n, mtime) == [name |-> n, mtime |-> mtime]

\* mutant of OldestFirst: the list is sorted newest first
NewestFirst(files, D) ==
    /\ D \subseteq files
    /\ Cardinality(D) = Cardinality(files) - max_files
    /\ \A d \in D : \A k \in files \ D : d.mtime >= k.mtime

\* files.sort(key=getmtime); files[:num_to_delete]: D is a possible value of
\* files_to_delete (files of equal mtime may come in either order)
OldestFirst(files, D) ==
    /\ D \subseteq files
    /\ Cardinality(D) = Cardinality(files) - max_files
    /\ \A d \in D : \A k \in files \ D : d.mtime <= k.mtime

\* mutant of enforce_fifo_for_dir: the cap is applied to the files of all
\* the directories together
enforce_fifo_for_dir_SharedCap(dirs, d, failing) ==
    LET total == Cardinality(UNION {dirs[x] : x \in DOMAIN dirs})
        excess == Min(total - max_files, Cardinality(dirs[d]))
    IN  IF total <= max_files
        THEN {{}}
        ELSE {D \ failing : D \in {X \in SUBSET dirs[d] :
                                       /\ Cardinality(X) = excess
                                       /\ \A x \in X : \A k \in dirs[d] \ X :
                                              x.mtime <= k.mtime}}

\* _enforce_fifo_for_dir(directory) with the files dirs[d]: the possible
\* sets of files removed, failing being the files whose os.remove raises
enforce_fifo_for_dir(dirs, d, failing) ==
    IF Cardinality(dirs[d]) <= max_files
    THEN {{}}
    ELSE {D \ failing : D \in {X \in SUBSET dirs[d] : OldestFirst(dirs[d], X)}}

\* for camera_dir in camera_dirs: self._enforce_fifo_for_dir(camera_dir)
RECURSIVE enforce_fifo_dirs(_, _, _)
enforce_fifo_dirs(dirs, ds, failing) ==
    IF ds = {} THEN {dirs}
    ELSE LET d == CHOOSE x \in ds : TRUE
         IN  UNION {enforce_fifo_dirs([dirs EXCEPT ![d] = @ \ removed], ds \ {d}, failing) :
                        removed \in enforce_fifo_for_dir(dirs, d, failing)}

\* the files of the whole snapshot directory
AllStored == storage_root \cup UNION {storage_dirs[d] : d \in DOMAIN storage_dirs}

\* _save_snapshot(camera_id, frame): creates the camera directory if needed
\* and writes a new file there
StorageWrite(camera_id) ==
    /\ storage_written < MaxStorageFiles
    /\ storage_written' = storage_written + 1
    /\ LET file == SnapshotFile(storage_written + 1, now)
           old == IF camera_id \in DOMAIN storage_dirs THEN storage_dirs[camera_id] ELSE {}
       IN  storage_dirs' = [c \in DOMAIN storage_dirs \cup {camera_id} |->
                               IF c = camera_id THEN old \cup {file} ELSE storage_dirs[c]]
    /\ UNCHANGED <<storage_root, last_sweep, now, storageOther>>

\* a *.jpg file is put into the snapshot directory itself
StorageWriteRoot ==
    /\ storage_written < MaxStorageFiles
    /\ storage_written' = storage_written + 1
    /\ storage_root' = storage_root \cup {SnapshotFile(storage_written + 1, now)}
    /\ UNCHANGED <<storage_dirs, last_sweep, now, storageOther>>

\* the clock that stamps the files advances
StorageTick ==
    /\ now < MaxStorageTime
    /\ now' = now + 1
    /\ UNCHANGED <<storageVars, storageOther>>

\* enforce_fifo(): one sweep; failing are the files that cannot be removed
Sweep(failing) ==
    /\ failing \subseteq AllStored
    /\ IF DOMAIN storage_dirs = {}
       THEN /\ \E removed \in enforce_fifo_for_dir([root |-> storage_root], "root", failing) :
                  storage_root' = storage_root \ removed
            /\ UNCHANGED storage_dirs
       ELSE /\ storage_dirs' \in enforce_fifo_dirs(storage_dirs, DOMAIN storage_dirs, failing)
            /\ UNCHANGED storage_root
    /\ last_sweep' = [n |-> 1 - last_sweep.n, failed |-> failing # {}]
    /\ UNCHANGED <<storage_written, now, storageOther>>

\* the sets of files a sweep fails to remove: none, or one file
Undeletable == {{}} \cup {{f} : f \in AllStored}

StorageNext ==
    \/ \E c \in Cameras : StorageWrite(c)
    \/ StorageWriteRoot
    \/ StorageTick
    \/ \E failing \in Undeletable : Sweep(failing)

SpecStorage == Init /\ [][StorageNext]_vars

\* ------------------------------------------------------------------------
\* Properties
\* ------------------------------------------------------------------------

\* the rows of detection_events written for track_id of camera_id
RowsOf(ev, camera_id, track_id) ==
    {i \in 1..Len(ev) : ev[i].camera_id = camera_id /\ ev[i].details = track_id}

\* the rows written by the current step
NewRows == (Len(detection_events) + 1)..Len(detection_events')

\* the tracks born in the current step
Born(camera_id) == DOMAIN track_states'[camera_id] \ DOMAIN track_states[camera_id]

\* C1: a Track, from its birth to its expiry, has at most one entry/exit row.
\* A Track is identified by its camera and the snapshot taken at its birth,
\* which every row it produces carries.
C1_AtMostOneEventPerTrack ==
    \A i, j \in 1..Len(detection_events) :
        (detection_events[i].camera_id = detection_events[j].camera_id
         /\ detection_events[i].snapshot_path = detection_events[j].snapshot_path)
        => i = j

\* C6: the snapshot of a Track is taken exactly once, at its birth: a step
\* writes one new file per Track born in it and no other file, a Track keeps
\* its snapshot path while it lives, and every entry/exit row written carries
\* the snapshot path of the Track that produced it.
C6_OneSnapshotPerTrack ==
    [][/\ \A c \in Cameras :
            \A t \in DOMAIN track_states[c] \cap DOMAIN track_states'[c] :
                track_states'[c][t].snapshot_path = track_states[c][t].snapshot_path
       /\ snapshot_files \subseteq snapshot_files'
       /\ snapshot_files' \ snapshot_files
            = UNION {{track_states'[c][t].snapshot_path : t \in Born(c)} : c \in Cameras}
       /\ \A c \in Cameras : \A t \in Born(c) :
            /\ track_states'[c][t].snapshot_path \notin snapshot_files
            /\ \A u \in Born(c) \ {t} :
                   track_states'[c][u].snapshot_path # track_states'[c][t].snapshot_path
       /\ \A i \in NewRows :
            LET row == detection_events'[i]
            IN  /\ row.details \in DOMAIN track_states'[row.camera_id]
                /\ row.snapshot_path = track_states'[row.camera_id][row.details].snapshot_path
                /\ row.snapshot_path \in snapshot_files']_vars

\* C6 witness: a Track that was seen again after its birth has produced an
\* event row carrying the snapshot of its birth
C6_Witness ==
    \E c \in Cameras : \E t \in DOMAIN track_states[c] :
        /\ track_states[c][t].direction_logged
        /\ track_states[c][t].last_seen > track_states[c][t].first_seen
        /\ track_states[c][t].snapshot_path \in snapshot_files
        /\ \E i \in RowsOf(detection_events, c, t) :
               detection_events[i].snapshot_path = track_states[c][t].snapshot_path

\* a frame of camera c was processed by the current step
FrameProcessed(c) == last_frame'[c].t # last_frame[c].t

\* C8: person_detected becomes true on the first processed frame that holds
\* a person, and becomes false only when the last 5 processed frames held no
\* person.
C8_PersonDetectedToggle ==
    [][\A c \in Cameras :
          /\ (FrameProcessed(c) /\ last_frame'[c].any_person_found)
                => states'[c].person_detected
          /\ (states[c].person_detected /\ ~states'[c].person_detected)
                => empty_run'[c] >= NoPersonFrames]_vars

\* C9: while a camera has no ROI configuration its frames are processed in
\* full and no entry/exit row is written for it.
C9_NoRoiNoEvents ==
    [][\A c \in Cameras :
          (c \notin DOMAIN roi_settings /\ FrameProcessed(c))
          => /\ ~last_frame'[c].has_roi
             /\ last_frame'[c].roi = <<0, 0, FrameWidth(c), FrameHeight(c)>>
             /\ \A i \in NewRows : detection_events'[i].camera_id # c]_vars

\* the entry directions section 4.3.1 of the specification accepts
AcceptedDescriptor(d) ==
    \/ Len(d) = 1 /\ d[1] \in valid_directions
    \/ /\ Len(d) = 2
       /\ d[1] \in FloatLits
       /\ d[2] \in FloatLits
       /\ ~MagnitudeBelowEps(FloatE7(d[1]), FloatE7(d[2]))

\* C10: an ROI write with an entry direction that is not accepted is
\* rejected and leaves the ROI configuration, in memory and in the store,
\* as it was.
C10_InvalidDirectionRejected ==
    [][(api_request'.path = "roi" /\ ~AcceptedDescriptor(api_request'.entry_direction))
       => /\ ~api_response'.success
          /\ roi_settings' = roi_settings
          /\ camera_config' = camera_config]_vars

\* C7: the rows of detection_events in id order have non-decreasing
\* timestamps, and ids follow the order of insertion.
C7_TimestampsNonDecreasing ==
    \A i, j \in 1..Len(detection_events) :
        detection_events[i].id < detection_events[j].id
        => detection_events[i].timestamp <= detection_events[j].timestamp

\* C7 witness: two threads have inserted rows, the later one in a later second
C7_Witness ==
    \E i, j \in 1..Len(detection_events) :
        /\ i < j
        /\ detection_events[i].camera_id # detection_events[j].camera_id
        /\ detection_events[i].timestamp < detection_events[j].timestamp

\* C3: the publishing capture thread is never held up by readers: when it is
\* the only live capture thread, its frame_queue.get() finds a frame and its
\* frame_queue.put() finds room; and the queue never holds more than one frame.
C3_ProducerNeverBlocked ==
    /\ Len(frame_queue) <= 1
    /\ \A p \in CaptureThreads :
          (\A q \in CaptureThreads \ {p} : ~Alive(q))
          => /\ capture[p].pc = "get" => frame_queue # <<>>
             /\ capture[p].pc = "put_blocking" => Len(frame_queue) < frame_queue_maxsize

\* C5: at most one capture thread of the Frame Source is alive
C5_AtMostOneProducer ==
    Cardinality({p \in CaptureThreads : Alive(p)}) <= 1

\* C14: once stop() has been called and the source is not started again, the
\* capture threads all end and the source stays not running and not initialized
C14_StopEndsProducer ==
    <>[](~cam_is_running)
    => <>[](/\ \A p \in CaptureThreads : ~Alive(p)
            /\ ~cam_is_running
            /\ ~cam_is_initialized)

\* C15: a capture thread that gives up on a failed open has just seen
\* max_retries failed opens in a row: retry_count holds the failed opens since
\* the last successful one, the one that ends the thread not yet counted.
C15_GivesUpAfterMaxRetries ==
    \A p \in CaptureThreads :
       (capture[p].pc = "finally" /\ capture[p].cap = "failed" /\ ~is_video_file)
       => capture[p].retry_count + 1 >= max_retries

\* C16: a capture thread of a camera leaves its loop, while the source is
\* still meant to run, only when max_reconnection_attempts opens have failed
\* since start().
C16_ExitsOnlyAtMaxReconnectionAttempts ==
    \A p \in CaptureThreads :
       (capture[p].pc = "finally" /\ cam_is_running /\ ~is_video_file)
       => open_failures >= max_reconnection_attempts

\* the step in which capture thread p comes back from cap.read()
ReadStep(p) == capture[p].pc = "read" /\ capture'[p].pc # "read"

\* the read gave no frame
ReadFailed(p) == ReadStep(p) /\ capture'[p].pc # "latest"

\* the read made the thread release the device and go back to open it again
Reconnects(p) == ReadStep(p) /\ capture'[p].pc = "loop" /\ capture'[p].cap = "none"

\* C17 as stated: for every Frame Source, a failed read during warm-up never
\* triggers a reconnection, a reconnection happens only with more than
\* max_consecutive_failures failed reads in a row, and a successful read
\* resets the count.
C17_ReconnectOnlyPastThreshold ==
    [][\A p \in CaptureThreads :
          /\ (ReadFailed(p) /\ capture[p].in_warmup_period) => ~Reconnects(p)
          /\ Reconnects(p) => capture'[p].consecutive_failures > max_consecutive_failures
          /\ (ReadStep(p) /\ ~ReadFailed(p)) => capture'[p].consecutive_failures = 0]_vars

\* C17 amended: a source that is not an IP camera does not count failed reads
\* during warm-up and never reconnects then; after warm-up it reconnects
\* exactly when the failed reads in a row exceed max_consecutive_failures; a
\* successful read resets the count. An IP camera reconnects on every failed
\* read, in warm-up or not.
C17_NonIpReconnectOnlyPastThreshold ==
    [][\A p \in CaptureThreads :
          /\ (ReadFailed(p) /\ capture[p].in_warmup_period /\ ~is_ip_camera)
             => (~Reconnects(p) /\ capture'[p].consecutive_failures = 0)
          /\ (ReadStep(p) /\ ~is_ip_camera)
             => (Reconnects(p) <=>
                   /\ ReadFailed(p)
                   /\ ~capture[p].in_warmup_period
                   /\ capture'[p].consecutive_failures > max_consecutive_failures)
          /\ (ReadStep(p) /\ is_ip_camera) => (Reconnects(p) <=> ReadFailed(p))
          /\ (ReadStep(p) /\ ~ReadFailed(p)) => capture'[p].consecutive_failures = 0]_vars

\* a USB camera has just reconnected after 51 failed reads in a row
C17_Witness ==
    \E p \in CaptureThreads :
       /\ source_kind = "usb"
       /\ cam_is_running
       /\ capture[p].pc = "loop"
       /\ capture[p].cap = "none"
       /\ ~capture[p].in_warmup_period
       /\ capture[p].consecutive_failures = max_consecutive_failures + 1

FirstThird(positions) == Max(1, Len(positions) \div 3)

\* k * (E - S): the sum of the last k positions minus the sum of the first k
Displacement(positions) ==
    LET n == Len(positions)
        k == FirstThird(positions)
    IN  <<SumX(SubSeq(positions, n - k + 1, n)) - SumX(SubSeq(positions, 1, k)),
          SumY(SubSeq(positions, n - k + 1, n)) - SumY(SubSeq(positions, 1, k))>>

\* |E - S|^2 * k^2
DisplacementSq(positions) ==
    Displacement(positions)[1] * Displacement(positions)[1]
    + Displacement(positions)[2] * Displacement(positions)[2]

\* C19 as stated: a Track with at least 3 positions whose movement vector has
\* magnitude exactly 2.0 px is undetermined: the direction check gives it no
\* entry and no exit.
C19_ExactlyTwoUndetermined ==
    (/\ classification # NotClassified
     /\ Len(classification.positions) >= 3
     /\ DisplacementSq(classification.positions)
           = 4 * FirstThird(classification.positions)
               * FirstThird(classification.positions))
    => classification.direction = None

\* C19 amended: a Track with at least 3 positions is undetermined by its
\* movement exactly when the magnitude is below 2.0 px; at exactly 2.0 px it
\* has its movement vector E - S, which is classified like any other.
C19_UndeterminedBelowTwo ==
    (classification # NotClassified /\ Len(classification.positions) >= 3)
    => /\ classification.movement_vector = NoVector
          <=> DisplacementSq(classification.positions)
                 < 4 * FirstThird(classification.positions)
                     * FirstThird(classification.positions)
       /\ classification.movement_vector # NoVector
          => classification.movement_vector = Displacement(classification.positions)

\* a Track of 6 positions that moved exactly 2.0 px along the entry direction
\* has been classified entry
C19_Witness ==
    /\ classification # NotClassified
    /\ Len(classification.positions) = 6
    /\ DisplacementSq(classification.positions)
          = 4 * FirstThird(classification.positions)
              * FirstThird(classification.positions)
    /\ classification.direction = "entry"

\* C20: for a Track with at least 3 positions and a movement vector, on a
\* camera that has an entry direction, the direction is entry exactly when
\* the dot product of the unit movement vector and the unit entry vector is
\* above 0.2, exit exactly when it is below -0.2, and none otherwise.  The
\* entry vector is the one the descriptor stands for: the vector of a
\* symbolic code, (1, 0) for IN and OUT, the parsed x,y of a free vector.
C20_ThresholdClassification ==
    (/\ classification # NotClassified
     /\ Len(classification.positions) >= 3
     /\ classification.movement_vector # NoVector
     /\ classification.camera_id \in DOMAIN roi_settings)
    => LET setting == roi_settings[classification.camera_id]
           descriptor == IF "entry_direction" \in DOMAIN setting
                         THEN setting.entry_direction
                         ELSE <<"1", "0">>
           entry_vector == IF Len(descriptor) = 1
                           THEN LegacyVector(descriptor[1])
                           ELSE Reduce(FloatE7(descriptor[1]), FloatE7(descriptor[2]))
           movement == Displacement(classification.positions)
       IN  /\ classification.direction = "entry" <=> DotAbove(movement, entry_vector)
           /\ classification.direction = "exit" <=> DotBelow(movement, entry_vector)
           /\ classification.direction \in {"entry", "exit", None}

\* C2: once stop_all() has returned, and until the next call, no step adds
\* a row to the event store or a file to the snapshot directory.
C2_NoWriteAfterStopAll ==
    [][last_return.op = "stop_all"
       => /\ detection_events' = detection_events
          /\ snapshot_files' = snapshot_files]_vars

\* C4: each camera has at most one live detection thread, and a camera for
\* which stop_camera has returned has no entry in detection_threads.
C4_OneWorkerPerCamera ==
    \A c \in Cameras :
        /\ Cardinality({t \in DetectionThreads :
                            /\ is_alive(detection_worker, t)
                            /\ detection_worker[t].camera = c}) <= 1
        /\ last_return = [op |-> "stop_camera", camera |-> c] => detection_threads[c] = 0

\* the current step is an enforce_fifo sweep
SweepStep == last_sweep'.n # last_sweep.n

\* C11: after a sweep in which no removal fails every camera directory
\* holds at most max_files files; a directory that held more holds exactly
\* max_files, and every file removed from it is at least as old as every
\* file kept.
C11_SweepKeepsNewest ==
    [][(SweepStep /\ ~last_sweep'.failed)
       => \A d \in DOMAIN storage_dirs :
             /\ storage_dirs'[d] \subseteq storage_dirs[d]
             /\ Cardinality(storage_dirs'[d]) <= max_files
             /\ Cardinality(storage_dirs[d]) > max_files
                  => /\ Cardinality(storage_dirs'[d]) = max_files
                     /\ \A x \in storage_dirs[d] \ storage_dirs'[d] :
                           \A k \in storage_dirs'[d] : x.mtime <= k.mtime]_vars

\* C11 witness: a sweep without failure has left a camera directory with
\* exactly max_files files after at least two files were removed
C11_Witness ==
    /\ last_sweep = [n |-> 1, failed |-> FALSE]
    /\ storage_root = {}
    /\ Cardinality(AllStored) + 2 <= storage_written
    /\ \E d \in DOMAIN storage_dirs :
          /\ Cardinality(storage_dirs[d]) = max_files
          /\ \E k \in storage_dirs[d] : k.mtime > 0

\* C12: a sweep removes nothing from a camera directory that holds at most
\* max_files files, whatever the other directories hold, and what it removes
\* from a directory is part of the oldest files of that directory alone.
C12_SweepPerDirectory ==
    [][SweepStep
       => \A d \in DOMAIN storage_dirs :
             /\ Cardinality(storage_dirs[d]) <= max_files
                  => storage_dirs'[d] = storage_dirs[d]
             /\ Cardinality(storage_dirs[d]) > max_files
                  => \E D \in SUBSET storage_dirs[d] :
                        /\ OldestFirst(storage_dirs[d], D)
                        /\ storage_dirs[d] \ storage_dirs'[d] \subseteq D
                        /\ storage_dirs'[d] \subseteq storage_dirs[d]]_vars

\* C12 witness: after a sweep a camera directory within the cap still holds
\* a file older than every file of another directory, which is at the cap
\* after files were removed
C12_Witness ==
    /\ last_sweep.n = 1
    /\ Cardinality(AllStored) < storage_written
    /\ \E d, e \in DOMAIN storage_dirs :
          /\ d # e
          /\ Cardinality(storage_dirs[d]) = max_files
          /\ Cardinality(storage_dirs[e]) = max_files
          /\ \E f \in storage_dirs[d] : \A g \in storage_dirs[e] : f.mtime < g.mtime

\* C13: a processed frame removes a Track if and only if the Track is not
\* observed in the frame and was last seen more than TrackExpiry seconds
\* before the frame's time; a Track last seen exactly TrackExpiry seconds
\* before is kept.
C13_ExpiryStrictlyAfterWindow ==
    [][\A c \in Cameras :
          FrameProcessed(c)
          => \A tr \in DOMAIN track_states[c] :
                (tr \notin DOMAIN track_states'[c])
                <=> /\ tr \notin last_frame'[c].track_ids_seen
                    /\ last_frame'[c].t - track_states[c][tr].last_seen > TrackExpiry]_vars

\* C13 witness: a Track not observed in the last frame is alive exactly
\* TrackExpiry seconds after it was last seen
C13_Witness ==
    \E c \in Cameras : \E tr \in DOMAIN track_states[c] :
        /\ tr \notin last_frame[c].track_ids_seen
        /\ last_frame[c].t - track_states[c][tr].last_seen = TrackExpiry

\* C21: reversing the configured entry direction swaps the classification of
\* every movement (entry becomes exit, exit becomes entry, undetermined stays
\* undetermined), and under a fixed entry direction a movement and its
\* reverse get opposite labels.  The reverse of a direction is the descriptor
\* of the negated vector; IN is the vector (1, 0).
C21_ReversalSwapsLabels ==
    (/\ classification # NotClassified
     /\ classification.camera_id \in DOMAIN roi_settings)
    => LET camera_id == classification.camera_id
           positions == classification.positions
           n == Len(positions)
           entry_direction == roi_settings[camera_id].entry_direction
           reversed ==
               CASE entry_direction = <<"LTR">> -> <<"RTL">>
                 [] entry_direction = <<"RTL">> -> <<"LTR">>
                 [] entry_direction = <<"BTT">> -> <<"TTB">>
                 [] entry_direction = <<"TLBR">> -> <<"BRTL">>
                 [] entry_direction = <<"IN">> -> <<"-1", "0">>
                 [] entry_direction = <<"0", "1">> -> <<"0", "-1">>
                 [] entry_direction = <<"0.000001", "0">> -> <<"-0.000001", "0">>
           opposite == CASE classification.direction = "entry" -> "exit"
                         [] classification.direction = "exit" -> "entry"
                         [] OTHER -> None
           movement_back == calculate_movement_vector([i \in 1..n |-> positions[n + 1 - i]])
       IN  /\ determine_direction([roi_settings EXCEPT
                                     ![camera_id].entry_direction = reversed],
                                  camera_id, classification.movement_vector)
              = opposite
           /\ determine_direction(roi_settings, camera_id, movement_back) = opposite

\* a movement from right to left counted as an entry under RTL
C21_Witness ==
    /\ classification.camera_id \in DOMAIN roi_settings
    /\ roi_settings[classification.camera_id].entry_direction = <<"RTL">>
    /\ classification.direction = "entry"
    /\ classification.movement_vector[1] < 0

C23_ReloadReturnsWhatWasSet ==
    [][/\ (reloaded_roi_settings' # reloaded_roi_settings)
          => \A c \in DOMAIN roi_settings :
                "coords" \in DOMAIN roi_settings[c]
                => /\ c \in DOMAIN reloaded_roi_settings'
                   /\ reloaded_roi_settings'[c].coords
                      = [i \in 1..4 |-> [int |-> roi_settings[c].coords[i]]]
                   /\ reloaded_roi_settings'[c].entry_direction
                      = roi_settings[c].entry_direction
       /\ (api_request'.path = "roi/clear" /\ api_request'.camera_id \in Registered)
          => /\ api_request'.camera_id \notin DOMAIN roi_settings'
             /\ get_camera_roi(camera_config', api_request'.camera_id) = <<>>]_vars

\* C26: once the producer has given up on the source because its retries
\* are exhausted, the camera listing shows the camera as inactive and the
\* source does not count as an active camera.
C26_GivenUpListedInactive ==
    \A p \in CaptureThreads :
        (/\ capture[p].pc = "dead"
         /\ \/ capture[p].retry_count >= max_retries
            \/ reconnection_attempts >= max_reconnection_attempts)
        => /\ ListedStatus = "inactive"
           /\ ~is_camera_active

\* C24: on an initialized registry, add_camera for an id already registered
\* with the same source returns success and leaves the registry unchanged:
\* the same Frame Source stays installed, it is neither stopped nor
\* restarted, and no new producer thread is created.
C24_AddSameSourceIsNoOp ==
    [][(registry' # registry /\ registry'.op = "add_camera" /\ registry'.same)
       => /\ registry'.pc = "idle"
          /\ registry'.ret
          /\ registry'.camera = registry.camera
          /\ registry'.source = registry.source
          /\ UNCHANGED <<cam_is_running, cam_thread, capture, source_call>>]_vars

\* add_camera("main", "0") has returned success while the first
\* CameraManager is installed and its producer runs
C24_Witness ==
    /\ registry.op = "add_camera"
    /\ registry.same
    /\ registry.ret
    /\ registry.pc = "idle"
    /\ registry.camera = 1
    /\ cam_is_running
    /\ Alive(1)

\* C25: after remove_camera has returned success the Frame Source is stopped
\* and no longer in the registry, and a reader that still holds it obtains
\* no frame from it other than the copy it was already given.
C25_NoFrameAfterRemoval ==
    [][(/\ registry.pc = "idle"
        /\ registry.op = "remove_camera"
        /\ registry.ret)
       => /\ registry.camera = 0
          /\ ~cam_is_running
          /\ last_read' = last_read \/ last_read' = 0]_vars

C27_WriteFailureDoesNotBlock ==
    [][LET new_events == {i \in (Len(emitted) + 1)..Len(emitted') :
                             emitted'[i].event \in {"entry", "exit"}}
       IN
       /\ Cardinality(NewRows)
            = IF \E c \in Cameras : FrameProcessed(c) /\ last_frame'[c].io.db_ok
              THEN Cardinality(new_events) ELSE 0
       /\ \A c \in Cameras, d \in {"entry", "exit"} :
              footfalls'[<<c, d>>]
                = footfalls[<<c, d>>]
                  + Cardinality({i \in new_events : /\ emitted'[i].camera = c
                                                    /\ emitted'[i].event = d})
       /\ \A c \in Cameras :
              /\ FrameProcessed(c)
                    => /\ last_frame'[c].raised => last_frame'[c].io.snapshot = "raises"
                       /\ (~last_frame'[c].raised /\ last_frame'[c].any_person_found)
                             => states'[c].person_detected
              /\ \A t \in DOMAIN track_states[c] \cap DOMAIN track_states'[c] :
                    /\ track_states[c][t].direction_logged
                          => track_states'[c][t].direction_logged
                    /\ (/\ FrameProcessed(c)
                        /\ ~track_states[c][t].direction_logged
                        /\ track_states'[c][t].direction_logged)
                       => LET d == track_states'[c][t].movement_direction
                          IN  /\ d \in {"entry", "exit"}
                              /\ \E i \in new_events :
                                    emitted'[i] = [event |-> d, camera |-> c,
                                                   track_id |-> t]
                              /\ track_states'[c][t].last_seen = last_frame'[c].t]_vars

\* C27 witness: the direction of a Track was committed while INSERTs failed:
\* the footfall is counted and no row exists; a later frame of the Track has
\* been processed with a working event store
C27_Witness ==
    \E c \in Cameras : \E t \in DOMAIN track_states[c] :
        /\ track_states[c][t].direction_logged
        /\ track_states[c][t].movement_direction = "entry"
        /\ footfalls[<<c, "entry">>] = 1
        /\ \E i \in 1..Len(emitted) :
               emitted[i] = [event |-> "entry", camera |-> c, track_id |-> t]
        /\ detection_events = <<>>
        /\ last_frame[c].io.db_ok
        /\ ~last_frame[c].raised
        /\ track_states[c][t].last_seen = last_frame[c].t

\* C28: a Track whose snapshot could not be written is still created, and
\* the entry/exit rows it produces are written with a null snapshot_path: the
\* snapshot_path of a row is null or names a file that was written.
C28_FailedSnapshotGivesNullPath ==
    [][/\ \A c \in Cameras :
            (FrameProcessed(c) /\ last_frame'[c].io.snapshot # "written")
            => \A t \in last_frame'[c].track_ids_seen \ DOMAIN track_states[c] :
                  t \in Born(c)
       /\ \A i \in NewRows :
            \/ detection_events'[i].snapshot_path = NoPath
            \/ detection_events'[i].snapshot_path \in snapshot_files']_vars

\* C30: when person_detected of a camera has gone from true to false, a
\* detection_end row with the id of the camera and a non-null snapshot_path
\* is written: once the dashboard monitor has polled the status of a camera
\* that has lost its person, detection_events holds such a row.
C30_DetectionEndRowWritten ==
    \A c \in Cameras :
        (/\ states[c].last_detection_time > 0
         /\ ~states[c].person_detected
         /\ c \in DOMAIN last_status
         /\ last_status[c] = get_detection_status[c])
        => \E i \in 1..Len(detection_events) :
              /\ detection_events[i].event_type = "detection_end"
              /\ detection_events[i].camera_id = c
              /\ detection_events[i].snapshot_path # NoPath

\* the events emitted by the current step for track t of camera c
EmittedFor(c, t) ==
    {i \in (Len(emitted) + 1)..Len(emitted') :
        emitted'[i].camera = c /\ emitted'[i].track_id = t}

\* C32: when the in_roi flag of an existing Track without a committed
\* direction flips in an iteration, exactly one event is emitted for it in
\* that iteration, entry if it is now inside and exit if it is now outside,
\* and direction_logged is latched.
C32_RoiFlipEmitsOneEvent ==
    [][\A c \in Cameras :
          \A t \in DOMAIN track_states[c] \cap DOMAIN track_states'[c] :
             (/\ FrameProcessed(c)
              /\ track_states'[c][t].in_roi # track_states[c][t].in_roi
              /\ ~track_states[c][t].direction_logged)
             => LET label == IF track_states'[c][t].in_roi THEN "entry" ELSE "exit"
                IN  /\ Cardinality(EmittedFor(c, t)) = 1
                    /\ \A i \in EmittedFor(c, t) : emitted'[i].event = label
                    /\ track_states'[c][t].direction_logged
                    /\ track_states'[c][t].movement_direction = label]_vars

\* C32 witness: a Track entered the ROI at its third sighting, where the
\* movement-vector check had a vector to classify; the crossing committed
\* entry and the only row of the Track is that entry
C32_Witness ==
    \E c \in Cameras : \E t \in DOMAIN track_states[c] :
        /\ c \in DOMAIN roi_settings
        /\ "entry_direction" \in DOMAIN roi_settings[c]
        /\ Len(track_states[c][t].positions) = 3
        /\ track_states[c][t].in_roi
        /\ track_states[c][t].roi_status_changed
        /\ track_states[c][t].direction_logged
        /\ track_states[c][t].movement_direction = "entry"
        /\ Cardinality(RowsOf(detection_events, c, t)) = 1

\* the tracks of camera c seen in the frame processed by the current step
Sighted(c) ==
    IF FrameProcessed(c)
    THEN last_frame'[c].track_ids_seen \cap DOMAIN track_states'[c]
    ELSE {}

\* C37 as stated: in_roi is true at every sighting of every Track, and a
\* step changes the in_roi flag of a Track only if the ROI configuration of
\* the camera changed since the frame before.
C37_InRoiAtEverySighting ==
    [][\A c \in Cameras : \A t \in Sighted(c) :
          /\ track_states'[c][t].in_roi
          /\ (/\ t \in DOMAIN track_states[c]
              /\ track_states'[c][t].in_roi # track_states[c][t].in_roi)
             => <<last_frame'[c].has_roi, last_frame'[c].roi>>
                  # <<last_frame[c].has_roi, last_frame[c].roi>>]_vars

\* C37 amended: at every sighting in_roi says whether the centroid the
\* detector returned lies within the image the detector was given (the
\* clamped crop, or the full frame): the stored centroid, moved back by the
\* crop offset, is tested against the size of that image.
C37_InRoiIffCentroidInImage ==
    [][\A c \in Cameras : \A t \in Sighted(c) :
          LET region == last_frame'[c]
              positions == track_states'[c][t].positions
              restored == positions[Len(positions)]
              offset == IF region.has_roi THEN <<region.roi[1], region.roi[2]>>
                        ELSE <<0, 0>>
              image_width == IF region.has_roi THEN region.roi[3] - region.roi[1]
                             ELSE FrameWidth(c)
              image_height == IF region.has_roi THEN region.roi[4] - region.roi[2]
                              ELSE FrameHeight(c)
              x == restored[1] - offset[1]
              y == restored[2] - offset[2]
          IN  track_states'[c][t].in_roi
                <=> (0 <= x /\ x <= image_width /\ 0 <= y /\ y <= image_height)]_vars

\* C37 witness: with the frame cropped to a ROI that was not changed since
\* the frame before, a Track born outside the rectangle is now inside it
C37_Witness ==
    \E c \in Cameras : \E t \in DOMAIN track_states[c] :
        /\ last_frame[c].has_roi
        /\ last_frame[c].roi[1] > 0
        /\ Len(track_states[c][t].positions) = 2
        /\ track_states[c][t].positions[1][1] < last_frame[c].roi[1]
        /\ track_states[c][t].in_roi
        /\ track_states[c][t].roi_status_changed

\* the settings in memory rs and the camera_config rows cfg agree on camera
\* c: both absent, or the same coordinates and the same entry direction
RoiAgrees(rs, cfg, c) ==
    IF c \in DOMAIN rs
    THEN /\ DOMAIN rs[c] = {"coords", "entry_direction"}
         /\ get_camera_roi(cfg, c)
            = [coords |-> [x1 |-> rs[c].coords[1], y1 |-> rs[c].coords[2],
                           x2 |-> rs[c].coords[3], y2 |-> rs[c].coords[4]],
               entry_direction |-> rs[c].entry_direction]
    ELSE get_camera_roi(cfg, c) = <<>>

\* C38: after every set_roi, set_entry_direction or clear_roi call that
\* returns success the settings in memory and the camera_config row of the
\* camera agree; set_roi leaves an existing entry direction as it is and
\* set_entry_direction leaves the coordinates as they are.
C38_MemoryAgreesWithStore ==
    [][/\ (roi_call' # roi_call /\ roi_call'.ok)
          => LET c == roi_call'.camera_id
             IN  /\ RoiAgrees(roi_settings', camera_config', c)
                 /\ (/\ roi_call'.op = "set_roi"
                     /\ c \in DOMAIN roi_settings
                     /\ "entry_direction" \in DOMAIN roi_settings[c])
                    => roi_settings'[c].entry_direction = roi_settings[c].entry_direction
                 /\ (/\ roi_call'.op = "set_entry_direction"
                     /\ c \in DOMAIN roi_settings
                     /\ "coords" \in DOMAIN roi_settings[c])
                    => roi_settings'[c].coords = roi_settings[c].coords
       /\ (/\ roi_call' = roi_call
           /\ api_request'.path = "roi/clear"
           /\ api_request'.camera_id \in Registered)
          => RoiAgrees(roi_settings', camera_config', api_request'.camera_id)]_vars

\* C34: a tracker id that is observed again on a camera more than TrackExpiry
\* seconds after it was last seen is a new Track: it has a snapshot of its
\* own, a position history that starts at this sighting and no committed
\* direction; also when no frame was processed in between and when detection
\* was stopped and started in between.
C34_ReappearingIdIsNewTrack ==
    [][\A c \in Cameras :
          FrameProcessed(c)
          => \A tr \in DOMAIN track_states[c] \cap last_frame'[c].track_ids_seen :
                (last_frame'[c].t - track_states[c][tr].last_seen > TrackExpiry)
                => /\ tr \in DOMAIN track_states'[c]
                   /\ track_states'[c][tr].snapshot_path # track_states[c][tr].snapshot_path
                   /\ Len(track_states'[c][tr].positions) = 1
                   /\ ~track_states'[c][tr].direction_logged]_vars

C35_ExceptionKeepsWorkerAlive ==
    [][\A t \in DetectionThreads :
          /\ (detection_worker[t].pc = "frame" /\ detection_worker'[t] # detection_worker[t])
                => detection_worker'[t].pc = "loop"
          /\ (detection_worker[t].pc # "dead" /\ detection_worker'[t].pc = "dead")
                => /\ detection_worker[t].pc = "loop"
                   /\ \/ ~is_running
                      \/ ~camera_is_running[detection_worker[t].camera]
                      \/ stop_detection[detection_worker[t].camera]]_vars

\* C35 witness: a detection thread has processed a frame after the frame in
\* which saving the snapshot of a new Track raised
C35_Witness ==
    \E t \in DetectionThreads :
        /\ detection_worker[t].pc = "loop"
        /\ LET c == detection_worker[t].camera
           IN  /\ ~last_frame[c].raised
               /\ last_frame[c].any_person_found
               /\ \E tr \in DOMAIN track_states[c] :
                      /\ track_states[c][tr].snapshot_path = NoPath
                      /\ track_states[c][tr].first_seen < last_frame[c].t

\* C39: after start_camera(c) has returned for a camera that runs, and while
\* no other call of the manager was made, the detection thread recorded for
\* c does not end as long as the camera runs.
C39_StartCameraWorkerKeepsRunning ==
    [][\A c \in Cameras :
          (/\ last_return = [op |-> "start_camera", camera |-> c]
           /\ manager_call = Idle
           /\ camera_is_running[c]
           /\ detection_threads[c] # 0)
          => detection_worker'[detection_threads[c]].pc # "dead"]_vars

\* C36: no thread waits for db_lock while it holds db_lock itself.
C36_NoAcquireWhileHolding ==
    \A th \in DbThreads :
        db_lock = th => db_pc[th] \notin {"delete_camera_roi", "get_camera_roi"}

\* C40: add_camera(id, source) returns True, and when it has returned
\* list_cameras() holds a row for id with that source.
C40_AddedCameraIsListed ==
    [][\A th \in DbThreads :
          (db_call'[th] # db_call[th] /\ db_call'[th].op = "add_camera")
          => /\ db_call'[th].ok
             /\ \E r \in list_cameras(cameras_table', camera_config') :
                    /\ r.camera_id = db_call'[th].camera_id
                    /\ r.source = db_call'[th].source]_vars

\* the steps shutdown has made, in order
ShutdownSteps == [i \in 1..Len(shutdown.log) |-> shutdown.log[i].step]

\* C31: the steps of shutdown are stop_all, stop_all_cameras and close, in
\* this order, all three are made whichever of them raised, and when stop_all
\* has returned no detection thread is alive at the time the Frame Sources
\* are stopped.
C31_OrderlyShutdown ==
    /\ \A i \in 1..Len(shutdown.log) :
           ShutdownSteps[i] = <<"stop_all", "stop_all_cameras", "close">>[i]
    /\ Len(shutdown.log) <= 3
    /\ shutdown.pc = "done" => Len(shutdown.log) = 3
    /\ (Len(shutdown.log) >= 2 /\ shutdown.log[1].ok)
          => \A t \in DetectionThreads : ~is_alive(detection_worker, t)

\* the calls of shutdown alone: their order, and that all three are made
\* whichever of them raised
ShutdownCallsInOrder ==
    /\ \A i \in 1..Len(shutdown.log) :
           ShutdownSteps[i] = <<"stop_all", "stop_all_cameras", "close">>[i]
    /\ Len(shutdown.log) <= 3
    /\ shutdown.pc = "done" => Len(shutdown.log) = 3
====
